---- MODULE Spec2Model ----
(***************************************************************************)
(* A model of the StarBase variable model (src/Sys/SysModModel.cpp): the   *)
(* JSON tree of variables, the declare/confirm lifecycle on the signed     *)
(* order field "o" (preDetails, postDetails, cleanUpModel, loop20ms) and   *)
(* the event dispatcher Variable::triggerEvent with its pointer binding.   *)
(***************************************************************************)
EXTENDS Integers, Sequences, FiniteSets

\* ------------------------------------------------------------------ bounds
\* number of boots (constructor + setup + loop) a behaviour goes through
MaxBoots == 2
\* highest row number used as an argument (rows are 0..MaxRow, or UINT8_MAX)
MaxRow == 1
\* number of declarations (initVar calls) made after setup, per boot
MaxLateDecl == 1
\* number of triggerEvent calls a behaviour of the dispatcher goes through
MaxEvents == 1
\* highest value an option is looked up for (values are 0..MaxValue)
MaxValue == 4
\* number of save requests made between two loop20ms ticks
MaxRequests == 2

\* ------------------------------------------------------- program constants
\* the "no row" sentinel of every uint8_t rowNr parameter
UINT8_MAX == 255
\* the padding of a new slot of a std::vector<uint16_t>
UINT16_MAX == 65535
\* the order SysModModel::setup passes to initSysMod for the Model module
ModelOrder == 4303
\* the order SysModSystem::setup passes to initSysMod for the System module
SystemOrder == 2000

\* ------------------------------------------------------------- JSON values
\* A JsonVariant: null, a boolean, an integer or an array of scalars.
JNull == [t |-> "null", v |-> 0, a |-> <<>>]
JInt(i) == [t |-> "int", v |-> i, a |-> <<>>]
JBool(b) == [t |-> "bool", v |-> IF b THEN 1 ELSE 0, a |-> <<>>]
JArr(s) == [t |-> "arr", v |-> 0, a |-> s]
\* a string, held as the number s that stands for its text
JStr(s) == [t |-> "str", v |-> s, a |-> <<>>]
IsNull(j) == j.t = "null"
IsArr(j) == j.t = "arr"
\* JsonVariant::as<int>(): null and arrays convert to 0
AsInt(j) == IF j.t \in {"int", "bool"} THEN j.v ELSE 0
\* JsonVariant::as<bool>()
AsBool(j) == j.t \in {"int", "bool"} /\ j.v # 0

Max(x, y) == IF x >= y THEN x ELSE y
Abs(x) == IF x < 0 THEN -x ELSE x
RemoveAt(s, i) == [k \in 1..(Len(s) - 1) |-> IF k < i THEN s[k] ELSE s[k + 1]]
\* array[idx] = x on a JsonArray: the array is extended with nulls up to idx
SetElem(a, idx, x) ==
  [k \in 1..Max(Len(a), idx + 1) |->
     IF k = idx + 1 THEN x ELSE IF k <= Len(a) THEN a[k] ELSE JNull]

\* ---------------------------------------------------------------- the tree
\* One variable (a JsonObject of the model): id, pid, type, value, o (order),
\* ro, p (pointer), fun (handler index), dash, oldValue and n (children).
NewVar(pid, id, type, ro) ==
  [id |-> id, pid |-> pid, type |-> type, value |-> JNull, o |-> JNull,
   ro |-> ro, p |-> JNull, fun |-> JNull, dash |-> JNull, oldValue |-> JNull,
   n |-> <<>>]
\* the null JsonObject
NullVar == NewVar("", "", "", FALSE)
IsNullVar(var) == var.id = ""

\* Variable::order(): var["o"] as an int, 0 when the field is absent
Order(var) == AsInt(var.o)
readOnly(var) == var.ro

\* a variant of findVar that looks at the later variables of root before it
\* looks below a variable
RECURSIVE findVarSiblingsFirst(_, _, _)
findVarSiblingsFirst(root, pid, id) ==
  IF root = <<>> THEN NullVar
  ELSE IF root[1].pid = pid /\ root[1].id = id THEN root[1]
  ELSE LET foundVar == findVarSiblingsFirst(Tail(root), pid, id)
       IN IF ~IsNullVar(foundVar) THEN foundVar
          ELSE findVarSiblingsFirst(root[1].n, pid, id)
\* SysModModel::findVar: the first variable, depth first, with this pid and id
RECURSIVE findVar(_, _, _)
findVar(root, pid, id) ==
  IF root = <<>> THEN NullVar
  ELSE IF root[1].pid = pid /\ root[1].id = id THEN root[1]
  ELSE LET foundVar == IF root[1].n # <<>> THEN findVar(root[1].n, pid, id)
                       ELSE NullVar
       IN IF ~IsNullVar(foundVar) THEN foundVar
          ELSE findVar(Tail(root), pid, id)

\* all variables of a forest, at any depth, in depth-first pre-order
RECURSIVE AllVars(_)
AllVars(root) ==
  IF root = <<>> THEN <<>>
  ELSE <<root[1]>> \o AllVars(root[1].n) \o AllVars(Tail(root))
Range(s) == {s[k] : k \in DOMAIN s}
VarSet(root) == Range(AllVars(root))
Key(var) == <<var.pid, var.id>>
Keys(root) == {Key(var) : var \in VarSet(root)}

\* a variant of walkThroughModel that goes on with the next variable of root
\* after the walk below a variable was stopped
RECURSIVE walkThroughModelOn(_, _, _)
walkThroughModelOn(root, stopAt, visited) ==
  IF root = <<>> THEN [visited |-> visited, result |-> FALSE]
  ELSE LET var == root[1]
           seen == Append(visited, var)
       IN IF Key(var) \in stopAt THEN [visited |-> seen, result |-> TRUE]
          ELSE LET below == IF var.n # <<>>
                            THEN walkThroughModelOn(var.n, stopAt, seen)
                            ELSE [visited |-> seen, result |-> FALSE]
                   rest == walkThroughModelOn(Tail(root), stopAt, below.visited)
               IN [rest EXCEPT !.result = @ \/ below.result]
\* SysModModel::walkThroughModel with a visitor fun that returns true for the
\* variables with a key in stopAt: the variables fun was called on, in this
\* order, after those in visited, and what the walk returns
RECURSIVE walkThroughModel(_, _, _)
walkThroughModel(root, stopAt, visited) ==
  IF root = <<>> THEN [visited |-> visited, result |-> FALSE]
  ELSE LET var == root[1]
           seen == Append(visited, var)
       IN IF Key(var) \in stopAt THEN [visited |-> seen, result |-> TRUE]
          ELSE LET below == IF var.n # <<>>
                            THEN walkThroughModel(var.n, stopAt, seen)
                            ELSE [visited |-> seen, result |-> FALSE]
               IN IF below.result THEN below
                  ELSE walkThroughModel(Tail(root), stopAt, below.visited)

\* the forest with the first variable pid.id replaced by newVar
RECURSIVE ReplaceVar(_, _, _, _)
ReplaceVar(root, pid, id, newVar) ==
  IF root = <<>> THEN <<>>
  ELSE IF root[1].pid = pid /\ root[1].id = id THEN <<newVar>> \o Tail(root)
  ELSE IF ~IsNullVar(findVar(root[1].n, pid, id))
       THEN <<[root[1] EXCEPT !.n = ReplaceVar(root[1].n, pid, id, newVar)]>>
            \o Tail(root)
  ELSE <<root[1]>> \o ReplaceVar(Tail(root), pid, id, newVar)

\* ------------------------------------------------------------ the lifecycle
\* The staged response object (web->getResponseObject()), as far as this file
\* writes it: details.rowNr, details.var, onAdd.rowNr and onDelete.rowNr.
NoResponse ==
  [detailsRowNr |-> JNull, detailsVar |-> <<>>, onAddRowNr |-> JNull,
   onDeleteRowNr |-> JNull]

\* Variable::preDetails: every child with order >= 0 gets its order negated
preDetailsKids(kids) ==
  [k \in DOMAIN kids |->
     IF Order(kids[k]) >= 0 THEN [kids[k] EXCEPT !.o = JInt(-Order(kids[k]))]
     ELSE kids[k]]
preDetails(var) == [var EXCEPT !.n = preDetailsKids(var.n)]

\* a variant of IterAfterRemove that steps over the successor
IterSkipsAfterRemove(i) == i + 1
\* The position of a JsonArray iterator after ++ when the element it pointed
\* to at index i has been removed: the successor, which now sits at index i.
IterAfterRemove(i) == i

\* a variant of postDetailsChild that nulls the row of a pending row-valued
\* child but leaves its order negative
postDetailsChildNoFlip(childVar, rowNr) ==
  IF IsArr(childVar.value)
  THEN IF rowNr # UINT8_MAX
       THEN LET updated ==
                  IF Order(childVar) < 0
                  THEN [childVar EXCEPT
                          !.value = JArr(SetElem(childVar.value.a, rowNr, JNull))]
                  ELSE childVar
                allNull == \A k \in DOMAIN updated.value.a :
                              IsNull(updated.value.a[k])
            IN [var |-> updated, remove |-> allNull, staged |-> TRUE]
       ELSE [var |-> childVar, remove |-> FALSE, staged |-> FALSE]
  ELSE [var |-> childVar, remove |-> Order(childVar) < 0, staged |-> FALSE]

\* a variant of postDetailsChild that makes the order of a pending row-valued
\* child positive when there is no row
postDetailsChildFlipNoRow(childVar, rowNr) ==
  IF IsArr(childVar.value)
  THEN LET updated ==
             IF Order(childVar) < 0
             THEN [childVar EXCEPT
                     !.value = IF rowNr # UINT8_MAX
                               THEN JArr(SetElem(childVar.value.a, rowNr, JNull))
                               ELSE @,
                     !.o = JInt(-Order(childVar))]
             ELSE childVar
           allNull == \A k \in DOMAIN updated.value.a :
                         IsNull(updated.value.a[k])
       IN [var |-> updated, remove |-> rowNr # UINT8_MAX /\ allNull,
           staged |-> rowNr # UINT8_MAX]
  ELSE [var |-> childVar, remove |-> Order(childVar) < 0, staged |-> FALSE]

\* a variant of postDetailsChild that keeps a row-valued child whose rows are
\* all null
postDetailsChildKeepNull(childVar, rowNr) ==
  IF IsArr(childVar.value)
  THEN IF rowNr # UINT8_MAX
       THEN LET updated ==
                  IF Order(childVar) < 0
                  THEN [childVar EXCEPT
                          !.value = JArr(SetElem(childVar.value.a, rowNr, JNull)),
                          !.o = JInt(-Order(childVar))]
                  ELSE childVar
            IN [var |-> updated, remove |-> FALSE, staged |-> TRUE]
       ELSE [var |-> childVar, remove |-> FALSE, staged |-> FALSE]
  ELSE [var |-> childVar, remove |-> Order(childVar) < 0, staged |-> FALSE]

\* a variant of postDetailsChild that nulls the row of every row-valued child,
\* pending or not
postDetailsChildNullAll(childVar, rowNr) ==
  IF IsArr(childVar.value)
  THEN IF rowNr # UINT8_MAX
       THEN LET updated ==
                  [childVar EXCEPT
                     !.value = JArr(SetElem(childVar.value.a, rowNr, JNull)),
                     !.o = JInt(Abs(Order(childVar)))]
                allNull == \A k \in DOMAIN updated.value.a :
                              IsNull(updated.value.a[k])
            IN [var |-> updated, remove |-> allNull, staged |-> TRUE]
       ELSE [var |-> childVar, remove |-> FALSE, staged |-> FALSE]
  ELSE [var |-> childVar, remove |-> Order(childVar) < 0, staged |-> FALSE]

\* a variant of postDetailsChild that keeps a pending child with one value and
\* makes its order positive
postDetailsChildKeepScalar(childVar, rowNr) ==
  IF IsArr(childVar.value)
  THEN IF rowNr # UINT8_MAX
       THEN LET updated ==
                  IF Order(childVar) < 0
                  THEN [childVar EXCEPT
                          !.value = JArr(SetElem(childVar.value.a, rowNr, JNull)),
                          !.o = JInt(-Order(childVar))]
                  ELSE childVar
                allNull == \A k \in DOMAIN updated.value.a :
                              IsNull(updated.value.a[k])
            IN [var |-> updated, remove |-> allNull, staged |-> TRUE]
       ELSE [var |-> childVar, remove |-> FALSE, staged |-> FALSE]
  ELSE [var |-> IF Order(childVar) < 0
                THEN [childVar EXCEPT !.o = JInt(-Order(childVar))]
                ELSE childVar,
        remove |-> FALSE, staged |-> FALSE]

\* The body of the loop of postDetails for one child: what becomes of the
\* child, whether it is removed and whether details.rowNr is staged.
postDetailsChild(childVar, rowNr) ==
  IF IsArr(childVar.value)
  THEN IF rowNr # UINT8_MAX
       THEN LET updated ==
                  IF Order(childVar) < 0
                  THEN [childVar EXCEPT
                          !.value = JArr(SetElem(childVar.value.a, rowNr, JNull)),
                          !.o = JInt(-Order(childVar))]
                  ELSE childVar
                allNull == \A k \in DOMAIN updated.value.a :
                              IsNull(updated.value.a[k])
            IN [var |-> updated, remove |-> allNull, staged |-> TRUE]
       ELSE [var |-> childVar, remove |-> FALSE, staged |-> FALSE]
  ELSE [var |-> childVar, remove |-> Order(childVar) < 0, staged |-> FALSE]

RECURSIVE postDetailsLoop(_, _, _)
postDetailsLoop(kids, i, rowNr) ==
  IF i > Len(kids) THEN kids
  ELSE LET step == postDetailsChild(kids[i], rowNr)
       IN IF step.remove
          THEN postDetailsLoop(RemoveAt(kids, i), IterAfterRemove(i), rowNr)
          ELSE postDetailsLoop([kids EXCEPT ![i] = step.var], i + 1, rowNr)

\* Variable::postDetails: the variable afterwards and the response staged
postDetails(var, rowNr, resp) ==
  LET after == IF Order(var) >= 0
               THEN [var EXCEPT !.n = postDetailsLoop(var.n, 1, rowNr)]
               ELSE var
      stagedRow == /\ Order(var) >= 0
                   /\ \E k \in DOMAIN var.n : postDetailsChild(var.n[k], rowNr).staged
  IN [var |-> after,
      resp |-> [resp EXCEPT
                  !.detailsRowNr = IF stagedRow THEN JInt(rowNr) ELSE @,
                  !.detailsVar = Key(var)]]

\* mdl->getValue("Model", "showObsolete") as cleanUpModel reads it
showObsoleteOf(root) == AsBool(findVar(root, "Model", "showObsolete").value)

\* a variant of obsolete that tests only for an order > 0 (oPos) or < 0
obsoleteOrderOnly(var, oPos) ==
  IF oPos THEN Order(var) > 0 ELSE Order(var) < 0
\* cleanUpModel's test for an obsolete variable: no order field, or an order
\* that is not negative (oPos) or negative (not oPos)
obsolete(var, oPos) ==
  IF oPos THEN IsNull(var.o) \/ Order(var) >= 0
  ELSE IsNull(var.o) \/ Order(var) < 0

\* a variant of keepsOrder that also runs the order branch when ro is set
keepsOrderAlways(ro) == FALSE
\* cleanUpModel leaves the order alone ("no cleanup of o") when ro is set
keepsOrder(ro) == ro

\* a variant of stripsValue that looks at the read-only flag only
stripsValueReadOnly(var, parentId, ro) == ro /\ readOnly(var)
\* cleanUpModel removes the value of a read-only variable and of a child of
\* the instances table when ro is set
stripsValue(var, parentId, ro) ==
  ro /\ (parentId = "instances" \/ readOnly(var))

\* SysModModel::cleanUpModel, the loop over vars (the children of parentId,
\* or the roots when parentId is "")
RECURSIVE cleanUpModelLoop(_, _, _, _, _, _)
cleanUpModelLoop(vars, i, parentId, oPos, ro, showObsolete) ==
  IF i > Len(vars) THEN vars
  ELSE LET var == vars[i]
           removed == /\ ~keepsOrder(ro)
                      /\ obsolete(var, oPos)
                      /\ (oPos => ~showObsolete)
           flipped == IF ~keepsOrder(ro) /\ oPos /\ ~obsolete(var, oPos)
                      THEN [var EXCEPT !.o = JInt(-Order(var))] ELSE var
           stripped == IF stripsValue(flipped, parentId, ro)
                       THEN [flipped EXCEPT !.value = JNull] ELSE flipped
           swept == IF stripped.n # <<>>
                    THEN [stripped EXCEPT
                            !.n = cleanUpModelLoop(stripped.n, 1, stripped.id,
                                                   oPos, ro, showObsolete)]
                    ELSE stripped
       IN IF removed
          THEN cleanUpModelLoop(RemoveAt(vars, i), IterAfterRemove(i), parentId,
                                oPos, ro, showObsolete)
          ELSE cleanUpModelLoop([vars EXCEPT ![i] = swept], i + 1, parentId,
                                oPos, ro, showObsolete)

cleanUpModel(root, oPos, ro) ==
  cleanUpModelLoop(root, 1, "", oPos, ro, showObsoleteOf(root))

\* cleanUpModel() with its default arguments, as loop20ms calls it once after
\* setup. The branch that runs is the oPos one: it is the only branch that
\* makes an order positive, and the comments of cleanUpModel say that the
\* declared variables are the ones "set negative in initVar" and that a
\* negative order afterwards means "not cleanedUp".
cleanUpModelDefault(root) == cleanUpModel(root, TRUE, FALSE)

\* a variant of Exclusions without the pointer
ExclusionsButPointer == {"fun", "dash", "o", "oldValue"}
\* The fields StarJson leaves out of the snapshot
Exclusions == {"fun", "dash", "o", "p", "oldValue"}
RECURSIVE writeJsonDocToFile(_, _)
writeJsonDocToFile(root, excl) ==
  [k \in DOMAIN root |->
     [root[k] EXCEPT
        !.fun = IF "fun" \in excl THEN JNull ELSE @,
        !.dash = IF "dash" \in excl THEN JNull ELSE @,
        !.o = IF "o" \in excl THEN JNull ELSE @,
        !.p = IF "p" \in excl THEN JNull ELSE @,
        !.oldValue = IF "oldValue" \in excl THEN JNull ELSE @,
        !.n = writeJsonDocToFile(@, excl)]]

\* ui->initVar: the declaration of variable pid.id under the variable parent
\* (NullVar for a module). The variable is looked up and created when it is
\* not there; its order is set negative while its parent is not yet cleaned
\* up, and positive when the parent's order is already >= 0.
initVarOrder(parent, counter) ==
  IF ~IsNullVar(parent) /\ Order(parent) >= 0 THEN counter ELSE -counter
initVar(root, parent, id, type, ro, order) ==
  LET pid == IF IsNullVar(parent) THEN "m" ELSE parent.id
      found == findVar(root, pid, id)
      var == IF IsNullVar(found) THEN NewVar(pid, id, type, ro) ELSE found
      declared == [var EXCEPT !.type = type, !.ro = ro, !.o = JInt(order)]
  IN IF ~IsNullVar(found) THEN ReplaceVar(root, pid, id, declared)
     ELSE IF IsNullVar(parent) THEN Append(root, declared)
     ELSE ReplaceVar(root, parent.pid, parent.id,
                     [parent EXCEPT !.n = Append(@, declared)])

\* a variant of RemoveIndex that removes the last element
RemoveIndexLast(a, rowNr) ==
  IF rowNr < Len(a) THEN SubSeq(a, 1, Len(a) - 1) ELSE a
\* JsonArray::remove(index): nothing is removed when there is no such element
RemoveIndex(a, rowNr) == IF rowNr < Len(a) THEN RemoveAt(a, rowNr + 1) ELSE a

\* a variant of removeValuesForRow that stops at the children
removeValuesForRowOfChildren(var, rowNr) ==
  [var EXCEPT !.n =
     [k \in DOMAIN var.n |->
        IF IsArr(var.n[k].value)
        THEN [var.n[k] EXCEPT !.value = JArr(RemoveIndex(@.a, rowNr))]
        ELSE var.n[k]]]
\* Variable::removeValuesForRow: the variable afterwards
RECURSIVE removeValuesForRow(_, _)
removeValuesForRow(var, rowNr) ==
  [var EXCEPT !.n =
     [k \in DOMAIN var.n |->
        IF IsArr(var.n[k].value)
        THEN removeValuesForRow(
               [var.n[k] EXCEPT !.value = JArr(RemoveIndex(@.a, rowNr))], rowNr)
        ELSE var.n[k]]]

\* the loop of rows over the elements of the array: fun is called with the
\* variable and rowNr, a uint8_t that is incremented after each call
RECURSIVE rowsLoop(_, _, _, _)
rowsLoop(var, values, rowNr, calls) ==
  IF values = <<>> THEN calls
  ELSE rowsLoop(var, Tail(values), (rowNr + 1) % (UINT8_MAX + 1),
                Append(calls, [var |-> var, rowNr |-> rowNr]))
\* a variant of rows that loops over the rows of the variable itself
rowsOfOwnValue(var) ==
  rowsLoop(var, IF IsArr(var.value) THEN var.value.a ELSE <<>>, 0, <<>>)
\* a variant of rows that loops over the rows of the first child that has an
\* array value
RECURSIVE firstArrayChild(_)
firstArrayChild(children) ==
  IF children = <<>> THEN <<>>
  ELSE IF IsArr(children[1].value) THEN children[1].value.a
  ELSE firstArrayChild(Tail(children))
rowsOfFirstArrayChild(var) == rowsLoop(var, firstArrayChild(var.n), 0, <<>>)
\* Variable::rows: the calls of fun, in order, over the rows of the first
\* child (children()[0] is null when there is no child, and valArray() is
\* null when the value is no array: no call then)
rows(var) ==
  LET firstChild == IF var.n # <<>> THEN var.n[1] ELSE NullVar
      valArray == IF IsArr(firstChild.value) THEN firstChild.value.a ELSE <<>>
  IN rowsLoop(var, valArray, 0, <<>>)

\* a variant of getValue that does not look at the default row
getValueOfRow(var, rowNr, defaultRowNr) ==
  IF IsArr(var.value)
  THEN IF rowNr # UINT8_MAX /\ rowNr < Len(var.value.a)
       THEN var.value.a[rowNr + 1]
       ELSE IF Len(var.value.a) > 0 THEN var.value.a[1]
       ELSE JNull
  ELSE var.value
\* Variable::getValue(rowNr), with mdl->getValueRowNr as defaultRowNr
getValue(var, rowNr, defaultRowNr) ==
  IF IsArr(var.value)
  THEN LET row == IF rowNr = UINT8_MAX THEN defaultRowNr ELSE rowNr
       IN IF row # UINT8_MAX /\ row < Len(var.value.a)
          THEN var.value.a[row + 1]
          ELSE IF Len(var.value.a) > 0 THEN var.value.a[1]
          ELSE JNull
  ELSE var.value

\* An options structure (a JsonVariant of the response): an individual option
\* with its text, an array of options, or a group, an object whose pairs have
\* the name of the group as key and options as value
Option(text) == [k |-> "option", key |-> "", text |-> text, items |-> <<>>]
OptionArray(items) == [k |-> "array", key |-> "", text |-> "", items |-> items]
Group(pairs) == [k |-> "group", key |-> "", text |-> "", items |-> pairs]
Pair(key, value) == [value EXCEPT !.key = key]
\* no text: the JsonString that isNull
NoText == ""
\* what findOptionsTextRec works on: *startValue, *groupName and *optionName
NoOption == [found |-> FALSE, startValue |-> 0, groupName |-> NoText,
             optionName |-> NoText]

\* a variant of masterGroup that takes the name of the innermost group
innerGroup(parentGroup, key) == key
\* the group name passed on for the value of a pair of a group: "the master
\* level group name only"
masterGroup(parentGroup, key) ==
  IF parentGroup = NoText THEN key ELSE parentGroup

\* Variable::findOptionsTextRec: found is what it returns; optionsLoop is the
\* loop over the elements of an array or the pairs of a group
RECURSIVE findOptionsTextRec(_, _, _, _)
RECURSIVE optionsLoop(_, _, _, _, _)
optionsLoop(options, i, out, value, parentGroup) ==
  IF i > Len(options.items) THEN out
  ELSE LET option == options.items[i]
           group == IF options.k = "group"
                    THEN masterGroup(parentGroup, option.key)
                    ELSE parentGroup
           done == findOptionsTextRec([option EXCEPT !.key = ""], out, value,
                                      group)
       IN IF done.found THEN done
          ELSE optionsLoop(options, i + 1, done, value, parentGroup)
findOptionsTextRec(options, out, value, parentGroup) ==
  IF options.k \in {"array", "group"}
  THEN optionsLoop(options, 1, out, value, parentGroup)
  ELSE IF out.startValue = value
       THEN [out EXCEPT !.found = TRUE, !.groupName = parentGroup,
                        !.optionName = options.text]
       ELSE [out EXCEPT !.startValue = (@ + 1) % (UINT8_MAX + 1)]

\* ----------------------------------------------------------- the dispatcher
EventTypes == {"onSetValue", "onUI", "onChange", "onLoop1s", "onAdd", "onDelete"}

\* var["value"][rowNr] and var["p"][rowNr]: null when j is no array or has no
\* element rowNr
ElemAt(j, rowNr) ==
  IF IsArr(j) /\ rowNr < Len(j.a) THEN j.a[rowNr + 1] ELSE JNull

\* a variant of NativeType that takes any other type for a uint8_t
NativeTypeOrUint8(type) ==
  CASE type = "number" -> "uint16_t"
    [] type = "checkbox" -> "bool3State"
    [] type \in {"text", "fileEdit"} -> "VectorString"
    [] type = "coord3D" -> "Coord3D"
    [] OTHER -> "uint8_t"
\* The native element type the pointer of a variable of this type is cast to
\* ("" for a type triggerEvent does not support)
NativeType(type) ==
  CASE type \in {"select", "range", "pin"} -> "uint8_t"
    [] type = "number" -> "uint16_t"
    [] type = "checkbox" -> "bool3State"
    [] type \in {"text", "fileEdit"} -> "VectorString"
    [] type = "coord3D" -> "Coord3D"
    [] OTHER -> ""
\* The element types whose values this model holds; VectorString and Coord3D
\* are defined outside these sources and no variable of the configurations
\* below has these types
IntegerTypes == {"uint8_t", "uint16_t", "bool3State"}
\* what push_back pads a new slot with
Sentinel(nativeType) ==
  IF nativeType = "uint16_t" THEN UINT16_MAX ELSE UINT8_MAX
\* the largest value of the element type
MaxOf(nativeType) ==
  IF nativeType = "uint16_t" THEN UINT16_MAX ELSE UINT8_MAX
\* a variant of Convert that stores the largest value of the type for a larger one
ConvertSaturating(j, nativeType) ==
  IF j.t \in {"int", "bool"} /\ j.v >= 0
  THEN (IF j.v <= MaxOf(nativeType) THEN j.v ELSE MaxOf(nativeType))
  ELSE 0
\* The assignment of a JsonVariant to a native integer: the value when it is
\* an integer the type can hold, 0 otherwise (null, out of range)
Convert(j, nativeType) ==
  IF j.t \in {"int", "bool"} /\ j.v >= 0 /\ j.v <= MaxOf(nativeType)
  THEN j.v ELSE 0

\* a variant of GrowTo that creates the slots without the padding value
GrowToZero(vec, rowNr, pad) ==
  [k \in 1..Max(Len(vec), rowNr + 1) |-> IF k <= Len(vec) THEN vec[k] ELSE 0]
\* while (rowNr >= vec.size()) vec.push_back(pad)
GrowTo(vec, rowNr, pad) ==
  [k \in 1..Max(Len(vec), rowNr + 1) |-> IF k <= Len(vec) THEN vec[k] ELSE pad]

\* a variant of EraseAt that erases the last element
EraseLast(vec, rowNr) ==
  IF rowNr < Len(vec) THEN SubSeq(vec, 1, Len(vec) - 1) ELSE vec
\* if (rowNr < vec.size()) vec.erase(vec.begin() + rowNr)
EraseAt(vec, rowNr) ==
  IF rowNr < Len(vec) THEN RemoveAt(vec, rowNr + 1) ELSE vec

\* The storage at a pointer is a vector (a single value otherwise)
IsVector(native, pointer) == pointer \in DOMAIN native /\ native[pointer].vec
IsSingle(native, pointer) == pointer \in DOMAIN native /\ ~native[pointer].vec

\* The pointer a variable is bound by, for this row: var["p"][rowNr] when p is
\* an array, var["p"] otherwise; 0 when there is none
PointerOf(var, rowNr) ==
  IF IsArr(var.p) THEN AsInt(ElemAt(var.p, rowNr)) ELSE AsInt(var.p)

\* The state a triggerEvent call works on: the change queue, the native
\* storage, the staged response, the save request and the log of its steps.
\* A log entry is a step with the event type and the native storage after it.
LogStep(st, step, eventType) ==
  [st EXCEPT !.log = Append(@, [step |-> step, eventType |-> eventType,
                                native |-> st.native])]

\* The log entry of a handler call also has the row the handler is called with
LogHandler(st, eventType, rowNr) ==
  [st EXCEPT !.log = Append(@, [step |-> "handler", eventType |-> eventType,
                                native |-> st.native, rowNr |-> rowNr])]

\* a variant of enqueueChange that ignores init
enqueueChangeAlways(var, init, st) ==
  IF ~IsNull(var.dash)
  THEN LogStep([st EXCEPT !.queue = Append(@, Key(var))], "enqueue", "onChange")
  ELSE st
\* triggerEvent, onChange: the variable is queued when this is no init call
\* and the variable has the dash field
enqueueChange(var, init, st) ==
  IF ~init /\ ~IsNull(var.dash)
  THEN LogStep([st EXCEPT !.queue = Append(@, Key(var))], "enqueue", "onChange")
  ELSE st

\* triggerEvent, onChange: the value is written to the storage the variable
\* is bound to by pointer
writePointer(var, rowNr, st) ==
  IF IsNull(var.p) THEN st
  ELSE LET value == IF rowNr = UINT8_MAX THEN var.value
                    ELSE ElemAt(var.value, rowNr)
           pointer == PointerOf(var, rowNr)
           nativeType == NativeType(var.type)
       IN IF pointer = 0 THEN st
          ELSE IF IsArr(var.value) /\ ~IsArr(var.p)
          THEN \* one vector for all rows
               IF rowNr # UINT8_MAX /\ nativeType \in IntegerTypes
                  /\ IsVector(st.native, pointer)
               THEN LogStep(
                      [st EXCEPT !.native[pointer].elems =
                         [GrowTo(@, rowNr, Sentinel(nativeType)) EXCEPT
                            ![rowNr + 1] = Convert(value, nativeType)]],
                      "write", "onChange")
               ELSE st
          ELSE \* one native value
               IF nativeType \in IntegerTypes /\ IsSingle(st.native, pointer)
               THEN LogStep(
                      [st EXCEPT !.native[pointer].elems =
                         <<Convert(value, nativeType)>>],
                      "write", "onChange")
               ELSE st

\* The handlers of mdl->varEvents, each the event types it returns true for:
\* the saveModel button (onUI, onChange: doWriteModel = true) and a variable
\* such as uptime (onUI, onLoop1s)
varEvents == << {"onUI", "onChange"}, {"onUI", "onLoop1s"} >>

\* a variant of callVarEvent that calls the last handler for an index past the
\* end of the table
callVarEventClamped(var, rowNr, eventType, st) ==
  IF IsNull(var.fun) THEN [st EXCEPT !.result = FALSE]
  ELSE LET funNr == IF Max(AsInt(var.fun), 0) < Len(varEvents)
                    THEN Max(AsInt(var.fun), 0) ELSE Len(varEvents) - 1
       IN LogHandler([st EXCEPT !.result = eventType \in varEvents[funNr + 1]],
                     eventType, rowNr)
\* triggerEvent: the handler var["fun"] is called when the index is in the
\* table; the result is what it returns, false when it is not called
callVarEvent(var, rowNr, eventType, st) ==
  IF IsNull(var.fun) THEN [st EXCEPT !.result = FALSE]
  ELSE LET funNr == Max(AsInt(var.fun), 0)
       IN IF funNr < Len(varEvents)
          THEN LogHandler(
                 [st EXCEPT
                    !.result = eventType \in varEvents[funNr + 1],
                    !.doWrite = @ \/ (funNr = 0 /\ eventType = "onChange"),
                    !.requests = IF funNr = 0 /\ eventType = "onChange"
                                 THEN @ + 1 ELSE @],
                 eventType, rowNr)
          ELSE [st EXCEPT !.result = FALSE]

\* What a build may make of the cast of a pointer to a single value to a
\* pointer to a vector, and of size() and erase() on it: the value is left as
\* it is, or it is overwritten
Reinterpreted == {"intact", "corrupted"}
\* the single value at pointer after it was taken for a vector
reinterpretSingle(st, pointer) ==
  LogStep([st EXCEPT !.native[pointer].elems =
                       IF st.outcome = "corrupted" THEN <<>> ELSE @],
          "reinterpret", "onDelete")

\* a variant of castsToVector that casts for a row-array binding only: the
\* value of the child is an array and its p is no array
castsToVectorOfRowArray(childVar, pointer, nativeType) ==
  pointer # 0 /\ nativeType # "" /\ IsArr(childVar.value) /\ ~IsArr(childVar.p)
\* triggerEvent, onDelete: the pointer of a child is cast to a pointer to a
\* vector when it is not 0 and the type of the child is one of the known ones
castsToVector(childVar, pointer, nativeType) ==
  pointer # 0 /\ nativeType # ""

\* triggerEvent, onDelete: the row is erased from the vector of every child
RECURSIVE deleteRow(_, _, _)
deleteRow(kids, rowNr, st) ==
  IF kids = <<>> THEN st
  ELSE LET childVar == kids[1]
           pointer == PointerOf(childVar, rowNr)
           nativeType == NativeType(childVar.type)
           st1 == IF castsToVector(childVar, pointer, nativeType)
                  THEN IF IsVector(st.native, pointer)
                       THEN LogStep(
                              [st EXCEPT
                                 !.native[pointer].elems = EraseAt(@, rowNr)],
                              "erase", "onDelete")
                       ELSE IF IsSingle(st.native, pointer)
                       THEN reinterpretSingle(st, pointer)
                       ELSE st
                  ELSE st
       IN deleteRow(Tail(kids), rowNr, st1)

\* triggerEvent, onAdd and onDelete: the erase cascade and the staged rowNr
addDelete(var, rowNr, eventType, st) ==
  IF eventType \notin {"onAdd", "onDelete"} THEN st
  ELSE LET st1 == IF eventType = "onDelete" THEN deleteRow(var.n, rowNr, st)
                  ELSE st
       IN LogStep(
            IF eventType = "onAdd"
            THEN [st1 EXCEPT !.resp.onAddRowNr = JInt(rowNr)]
            ELSE [st1 EXCEPT !.resp.onDeleteRowNr = JInt(rowNr)],
            "rowNr", eventType)

\* a variant of dispatch that calls the handler before the storage is written
dispatchHandlerFirst(var, eventType, rowNr, init, st) ==
  LET st1 == callVarEvent(var, rowNr, eventType, st)
      st2 == IF eventType = "onChange"
             THEN writePointer(var, rowNr, enqueueChange(var, init, st1))
             ELSE st1
  IN addDelete(var, rowNr, eventType, st2)
\* Variable::triggerEvent without the nested call for read-only variables
dispatch(var, eventType, rowNr, init, st) ==
  LET st1 == IF eventType = "onChange"
             THEN writePointer(var, rowNr, enqueueChange(var, init, st))
             ELSE st
      st2 == callVarEvent(var, rowNr, eventType, st1)
  IN addDelete(var, rowNr, eventType, st2)

\* a variant of triggerEvent that triggers onSetValue after onUI on every variable
triggerEventAlwaysNested(var, eventType, rowNr, init, st) ==
  LET st1 == dispatch(var, eventType, rowNr, init, st)
  IN IF eventType = "onUI"
     THEN [dispatch(var, "onSetValue", rowNr, FALSE,
                    LogStep(st1, "nested", "onSetValue"))
             EXCEPT !.result = st1.result]
     ELSE st1
\* a variant of triggerEvent that triggers onChange after onUI on a read-only
\* variable
triggerEventNestedChange(var, eventType, rowNr, init, st) ==
  LET st1 == dispatch(var, eventType, rowNr, init, st)
  IN IF eventType = "onUI" /\ readOnly(var)
     THEN [dispatch(var, "onChange", rowNr, FALSE,
                    LogStep(st1, "nested", "onChange"))
             EXCEPT !.result = st1.result]
     ELSE st1
\* Variable::triggerEvent: for onUI on a read-only variable triggerEvent is
\* called in turn, with onSetValue, the same row and no init; the result is
\* the one of the handler of the first event
RECURSIVE triggerEvent(_, _, _, _, _)
triggerEvent(var, eventType, rowNr, init, st) ==
  LET st1 == dispatch(var, eventType, rowNr, init, st)
  IN IF eventType = "onUI" /\ readOnly(var)
     THEN [triggerEvent(var, "onSetValue", rowNr, FALSE,
                        LogStep(st1, "nested", "onSetValue"))
             EXCEPT !.result = st1.result]
     ELSE st1

\* ------------------------------------------------------------------- state
VARIABLES
  model,            \* the JsonDocument of SysModModel: the forest of variables
  file,             \* /model.json, the persisted snapshot
  cleanUpModelDone, \* SysModModel::cleanUpModelDone
  doWriteModel,     \* SysModModel::doWriteModel
  varCounter,       \* the counter initVar takes orders from
  response,         \* the staged response object
  pc,               \* where the boot is: "setupModel", "setupSystem", "loop"
  build,            \* what this boot's firmware declares: psram, devmode
  boots,            \* number of boots so far
  lateDecl,         \* declarations made after setup in this boot
  loaded,           \* history: the snapshot the constructor read at this boot
  declared,         \* history: the variables declared by this boot's setup
  preSweep,         \* history: the tree just before this boot's startup sweep
  swept,            \* history: the tree just after this boot's startup sweep
  prevLoaded,       \* history: loaded, of the boot before
  prevDeclared,     \* history: declared, of the boot before
  prevSwept,        \* history: swept, of the boot before
  openWin,          \* history: variables with a preDetails not yet followed by a postDetails
  unreconciled,     \* history: variables with a preDetails not yet followed by an effective postDetails
  native,           \* the storage of the modules that variables are bound to by pointer
  changedVarsQueue, \* instances->changedVarsQueue
  nEvents,          \* number of triggerEvent calls so far
  lastCall,         \* history: the last triggerEvent call, its result and the state it started in
  evlog,            \* history: the steps of the last triggerEvent call
  query,            \* history: the last call of a query on the tree and what it returned
  getValueRowNr,    \* SysModModel::getValueRowNr, the row getValue takes when it is given none
  saveRequests,     \* history: calls of the saveModel handler for onChange since the last tick of this boot
  lastTick          \* history: the last loop20ms tick of this boot: the requests it found, the snapshots it wrote

lifeVars ==
  <<model, file, cleanUpModelDone, doWriteModel, varCounter, response, pc,
    build, boots, lateDecl, loaded, declared, preSweep, swept, prevLoaded,
    prevDeclared, prevSwept, openWin, unreconciled>>
evtVars == <<native, changedVarsQueue, nEvents, lastCall, evlog>>
queryVars == <<query, getValueRowNr>>
saveVars == <<saveRequests, lastTick>>
vars == <<lifeVars, evtVars, queryVars, saveVars>>

\* no loop20ms tick yet
NoTick == [requests |-> 0, writes |-> 0]
Rows == 0..MaxRow \cup {UINT8_MAX}
Builds == [psram : BOOLEAN, devmode : BOOLEAN]

\* ------------------------------------------------- snapshots a boot may find
SnapVar(pid, id, type, ro, value, kids) ==
  [NewVar(pid, id, type, ro) EXCEPT !.value = value, !.n = kids]
\* no /model.json, or one that cannot be read
NoFile == <<>>
\* scalar values, the showObsolete checkbox on, a variable no module declares
FileObsolete ==
  << SnapVar("m", "Model", "module", FALSE, JNull,
       << SnapVar("Model", "saveModel", "button", FALSE, JNull, <<>>),
          SnapVar("Model", "showObsolete", "checkbox", FALSE, JBool(TRUE), <<>>) >>),
     SnapVar("m", "System", "module", FALSE, JNull,
       << SnapVar("System", "old", "text", FALSE, JInt(7),
            << SnapVar("old", "older", "text", FALSE, JInt(8), <<>>) >>),
          SnapVar("System", "name", "text", FALSE, JInt(5), <<>>),
          SnapVar("System", "uptime", "text", TRUE, JNull, <<>>) >>) >>
\* row values: System's children hold one value per row
FileRows ==
  << SnapVar("m", "System", "module", FALSE, JNull,
       << SnapVar("System", "name", "text", FALSE, JArr(<<JInt(1), JInt(2)>>), <<>>),
          SnapVar("System", "gone", "number", FALSE, JArr(<<JInt(3)>>), <<>>),
          SnapVar("System", "safeMode", "checkbox", FALSE,
                  JArr(<<JNull, JBool(TRUE)>>), <<>>),
          SnapVar("System", "psram", "progress", TRUE, JNull, <<>>) >>) >>
InitFiles == {NoFile, FileObsolete, FileRows}
\* the showObsolete checkbox on and the instances table of another module,
\* with a value in its column and a read-only column with a value; count has
\* the fields of a snapshot that was generated with the exclusions commented
\* out
FileInstances ==
  << SnapVar("m", "Model", "module", FALSE, JNull,
       << SnapVar("Model", "saveModel", "button", FALSE, JNull, <<>>),
          SnapVar("Model", "showObsolete", "checkbox", FALSE, JBool(TRUE), <<>>) >>),
     SnapVar("m", "Instances", "module", FALSE, JNull,
       << SnapVar("Instances", "instances", "table", FALSE, JNull,
            << SnapVar("instances", "insName", "text", FALSE,
                       JArr(<<JInt(4)>>), <<>>),
               SnapVar("instances", "insUp", "number", TRUE,
                       JArr(<<JInt(6)>>), <<>>) >>),
          [SnapVar("Instances", "count", "number", FALSE, JInt(1), <<>>)
             EXCEPT !.fun = JInt(3), !.dash = JBool(TRUE), !.o = JInt(5),
                    !.p = JInt(9), !.oldValue = JInt(0)] >>) >>

\* no triggerEvent call yet
NoCall ==
  [key |-> <<>>, eventType |-> "", rowNr |-> UINT8_MAX, init |-> FALSE,
   result |-> FALSE, queue |-> <<>>, native |-> <<>>, response |-> NoResponse]
\* no findVar, walkThroughModel, removeValuesForRow, rows, getValue or
\* findOptionsTextRec call yet
NoQuery ==
  [op |-> "", pid |-> "", id |-> "", scope |-> <<>>, found |-> NullVar,
   stopAt |-> {}, visited |-> <<>>, result |-> FALSE, rowNr |-> UINT8_MAX,
   calls |-> <<>>, value |-> JNull, options |-> OptionArray(<<>>),
   optionValue |-> 0, groupName |-> NoText, optionName |-> NoText]
EvtIdle ==
  /\ query = NoQuery
  /\ native = <<>>
  /\ changedVarsQueue = <<>>
  /\ nEvents = 0
  /\ lastCall = NoCall
  /\ evlog = <<>>

\* ---------------------------------------------------------------- lifecycle

\* SysModModel::SysModModel: the model is read from /model.json
Construct(f) ==
  /\ model' = f
  /\ loaded' = f
  /\ cleanUpModelDone' = FALSE
  /\ doWriteModel' = FALSE
  /\ varCounter' = 1
  /\ response' = NoResponse
  /\ pc' = "setupModel"
  /\ lateDecl' = 0
  /\ declared' = {}
  /\ preSweep' = <<>>
  /\ swept' = <<>>
  /\ openWin' = {}
  /\ unreconciled' = {}

LifeInit ==
  /\ file \in InitFiles
  /\ model = file
  /\ loaded = file
  /\ cleanUpModelDone = FALSE
  /\ doWriteModel = FALSE
  /\ varCounter = 1
  /\ response = NoResponse
  /\ pc = "setupModel"
  /\ build \in Builds
  /\ boots = 1
  /\ lateDecl = 0
  /\ declared = {}
  /\ preSweep = <<>>
  /\ swept = <<>>
  /\ prevLoaded = <<>>
  /\ prevDeclared = {}
  /\ prevSwept = <<>>
  /\ openWin = {}
  /\ unreconciled = {}
  /\ EvtIdle
  /\ getValueRowNr = UINT8_MAX
  /\ saveRequests = 0
  /\ lastTick = NoTick

\* ui->initXxx(parent, id, value, readOnly): initVar, then the default value
\* when the variable has no value yet
initVarAndValue(root, parentPid, parentId, id, type, ro, value, counter) ==
  LET parent == findVar(root, parentPid, parentId)
      root1 == initVar(root, parent, id, type, ro, initVarOrder(parent, counter))
      var == findVar(root1, parentId, id)
  IN IF IsNull(var.value) /\ ~IsNull(value)
     THEN ReplaceVar(root1, parentId, id, [var EXCEPT !.value = value])
     ELSE root1

\* SysModModel::setup
SetupModel ==
  /\ pc = "setupModel"
  /\ LET m1 == initVar(model, NullVar, "Model", "module", FALSE, -ModelOrder)
         m2 == initVarAndValue(m1, "m", "Model", "saveModel", "button", FALSE,
                               JNull, varCounter)
         m3 == initVarAndValue(m2, "m", "Model", "showObsolete", "checkbox",
                               FALSE, JBool(FALSE), varCounter + 1)
         m4 == initVarAndValue(m3, "m", "Model", "deleteObsolete", "button",
                               FALSE, JNull, varCounter + 2)
     IN /\ model' = IF build.devmode THEN m4 ELSE m2
        /\ varCounter' = IF build.devmode THEN varCounter + 3 ELSE varCounter + 1
        /\ declared' = declared \cup {<<"m", "Model">>, <<"Model", "saveModel">>}
             \cup (IF build.devmode
                   THEN {<<"Model", "showObsolete">>, <<"Model", "deleteObsolete">>}
                   ELSE {})
  /\ pc' = "setupSystem"
  /\ UNCHANGED <<file, cleanUpModelDone, doWriteModel, response, build, boots,
                 lateDecl, loaded, preSweep, swept, prevLoaded, prevDeclared,
                 prevSwept, openWin, unreconciled>>
  /\ UNCHANGED <<evtVars, queryVars, saveVars>>

\* SysModSystem::setup: the module, name, uptime, psram when there is PSRAM,
\* and safeMode
SetupSystem ==
  /\ pc = "setupSystem"
  /\ LET m1 == initVar(model, NullVar, "System", "module", FALSE, -SystemOrder)
         m2 == initVarAndValue(m1, "m", "System", "name", "text", FALSE,
                               JInt(1), varCounter)
         m3 == initVarAndValue(m2, "m", "System", "uptime", "text", TRUE,
                               JNull, varCounter + 1)
         m4 == IF build.psram
               THEN initVarAndValue(m3, "m", "System", "psram", "progress",
                                    TRUE, JInt(0), varCounter + 2)
               ELSE m3
         c4 == IF build.psram THEN varCounter + 3 ELSE varCounter + 2
         m5 == initVarAndValue(m4, "m", "System", "safeMode", "checkbox",
                               FALSE, JBool(FALSE), c4)
     IN /\ model' = m5
        /\ varCounter' = c4 + 1
        /\ declared' = declared
             \cup {<<"m", "System">>, <<"System", "name">>,
                   <<"System", "uptime">>, <<"System", "safeMode">>}
             \cup (IF build.psram THEN {<<"System", "psram">>} ELSE {})
  /\ pc' = "loop"
  /\ UNCHANGED <<file, cleanUpModelDone, doWriteModel, response, build, boots,
                 lateDecl, loaded, preSweep, swept, prevLoaded, prevDeclared,
                 prevSwept, openWin, unreconciled>>
  /\ UNCHANGED <<evtVars, queryVars, saveVars>>

\* a variant of Loop20ms that serves the save request before the startup sweep
Loop20msWriteFirst ==
  /\ pc = "loop"
  /\ LET stripped == IF doWriteModel THEN cleanUpModel(model, FALSE, TRUE)
                     ELSE model
         cleaned == IF ~cleanUpModelDone THEN cleanUpModelDefault(stripped)
                    ELSE stripped
     IN /\ model' = cleaned
        /\ file' = IF doWriteModel THEN writeJsonDocToFile(stripped, Exclusions)
                   ELSE file
        /\ preSweep' = IF ~cleanUpModelDone THEN model ELSE preSweep
        /\ swept' = IF ~cleanUpModelDone THEN cleaned ELSE swept
  /\ cleanUpModelDone' = TRUE
  /\ doWriteModel' = FALSE
  /\ saveRequests' = 0
  /\ lastTick' = [requests |-> saveRequests,
                  writes |-> IF doWriteModel THEN 1 ELSE 0]
  /\ UNCHANGED <<varCounter, response, pc, build, boots, lateDecl, loaded,
                 declared, prevLoaded, prevDeclared, prevSwept, openWin,
                 unreconciled>>
  /\ UNCHANGED <<evtVars, queryVars>>
\* a variant of Loop20ms that leaves doWriteModel as it is
Loop20msKeepsRequest ==
  /\ pc = "loop"
  /\ LET cleaned == IF ~cleanUpModelDone THEN cleanUpModelDefault(model)
                    ELSE model
         stripped == IF doWriteModel THEN cleanUpModel(cleaned, FALSE, TRUE)
                     ELSE cleaned
     IN /\ model' = stripped
        /\ file' = IF doWriteModel THEN writeJsonDocToFile(stripped, Exclusions)
                   ELSE file
        /\ preSweep' = IF ~cleanUpModelDone THEN model ELSE preSweep
        /\ swept' = IF ~cleanUpModelDone THEN cleaned ELSE swept
  /\ cleanUpModelDone' = TRUE
  /\ saveRequests' = 0
  /\ lastTick' = [requests |-> saveRequests,
                  writes |-> IF doWriteModel THEN 1 ELSE 0]
  /\ UNCHANGED <<doWriteModel, varCounter, response, pc, build, boots,
                 lateDecl, loaded, declared, prevLoaded, prevDeclared,
                 prevSwept, openWin, unreconciled>>
  /\ UNCHANGED <<evtVars, queryVars>>
\* SysModModel::loop20ms
Loop20ms ==
  /\ pc = "loop"
  /\ LET cleaned == IF ~cleanUpModelDone THEN cleanUpModelDefault(model)
                    ELSE model
         stripped == IF doWriteModel THEN cleanUpModel(cleaned, FALSE, TRUE)
                     ELSE cleaned
     IN /\ model' = stripped
        /\ file' = IF doWriteModel THEN writeJsonDocToFile(stripped, Exclusions)
                   ELSE file
        /\ preSweep' = IF ~cleanUpModelDone THEN model ELSE preSweep
        /\ swept' = IF ~cleanUpModelDone THEN cleaned ELSE swept
  /\ cleanUpModelDone' = TRUE
  /\ doWriteModel' = FALSE
  /\ saveRequests' = 0
  /\ lastTick' = [requests |-> saveRequests,
                  writes |-> IF doWriteModel THEN 1 ELSE 0]
  /\ UNCHANGED <<varCounter, response, pc, build, boots, lateDecl, loaded,
                 declared, prevLoaded, prevDeclared, prevSwept, openWin,
                 unreconciled>>
  /\ UNCHANGED <<evtVars, queryVars>>

\* the onChange case of the saveModel button's handler
SaveModelOnChange ==
  /\ pc = "loop"
  /\ saveRequests < MaxRequests
  /\ doWriteModel' = TRUE
  /\ saveRequests' = saveRequests + 1
  /\ UNCHANGED <<model, file, cleanUpModelDone, varCounter, response, pc,
                 build, boots, lateDecl, loaded, declared, preSweep, swept,
                 prevLoaded, prevDeclared, prevSwept, openWin, unreconciled>>
  /\ UNCHANGED <<evtVars, queryVars, lastTick>>

\* a caller of Variable::preDetails on the variable key; one declaration
\* window is open at a time
PreDetails(key) ==
  /\ pc = "loop"
  /\ LET var == findVar(model, key[1], key[2])
     IN /\ ~IsNullVar(var)
        /\ var.n # <<>>
        /\ model' = ReplaceVar(model, key[1], key[2], preDetails(var))
  /\ unreconciled = {}
  /\ openWin' = openWin \cup {key}
  /\ unreconciled' = unreconciled \cup {key}
  /\ UNCHANGED <<file, cleanUpModelDone, doWriteModel, varCounter, response,
                 pc, build, boots, lateDecl, loaded, declared, preSweep, swept,
                 prevLoaded, prevDeclared, prevSwept>>
  /\ UNCHANGED <<evtVars, queryVars, saveVars>>

\* a caller of Variable::postDetails(rowNr) on a variable that had preDetails
PostDetails(key, rowNr) ==
  /\ pc = "loop"
  /\ key \in unreconciled
  /\ LET var == findVar(model, key[1], key[2])
         done == postDetails(var, rowNr, response)
     IN /\ ~IsNullVar(var)
        /\ model' = ReplaceVar(model, key[1], key[2], done.var)
        /\ response' = done.resp
        /\ unreconciled' = IF rowNr # UINT8_MAX /\ Order(var) >= 0
                           THEN unreconciled \ {key} ELSE unreconciled
  /\ openWin' = openWin \ {key}
  /\ UNCHANGED <<file, cleanUpModelDone, doWriteModel, varCounter, pc, build,
                 boots, lateDecl, loaded, declared, preSweep, swept,
                 prevLoaded, prevDeclared, prevSwept>>
  /\ UNCHANGED <<evtVars, queryVars, saveVars>>

\* the children a module may declare again after setup
LateDecls ==
  { <<"System", "name", "text", FALSE>>,
    <<"System", "safeMode", "checkbox", FALSE>> }

\* a declaration made after setup (ui->initVar from a handler)
LateDeclare(d) ==
  /\ pc = "loop"
  /\ lateDecl < MaxLateDecl
  /\ ~IsNullVar(findVar(model, "m", d[1]))
  /\ model' = initVarAndValue(model, "m", d[1], d[2], d[3], d[4], JNull, varCounter)
  /\ varCounter' = varCounter + 1
  /\ lateDecl' = lateDecl + 1
  /\ UNCHANGED <<file, cleanUpModelDone, doWriteModel, response, pc, build,
                 boots, loaded, declared, preSweep, swept, prevLoaded,
                 prevDeclared, prevSwept, openWin, unreconciled>>
  /\ UNCHANGED <<evtVars, queryVars, saveVars>>

\* the reboot button of SysModSystem (ESP.restart()): the next boot, possibly
\* of another firmware build
Reboot ==
  /\ pc = "loop"
  /\ cleanUpModelDone
  /\ boots < MaxBoots
  /\ boots' = boots + 1
  /\ build' \in Builds
  /\ prevLoaded' = loaded
  /\ prevDeclared' = declared
  /\ prevSwept' = swept
  /\ Construct(file)
  /\ saveRequests' = 0
  /\ lastTick' = NoTick
  /\ UNCHANGED file
  /\ UNCHANGED <<evtVars, queryVars>>

\* Boots: setup, the startup sweep, save requests, snapshots and reboots
BootNext ==
  \/ SetupModel
  \/ SetupSystem
  \/ Loop20ms
  \/ SaveModelOnChange
  \/ Reboot

SpecBoot == LifeInit /\ [][BootNext]_vars

\* Boots that may also find the snapshot with the instances table
SaveInit ==
  /\ file \in InitFiles \cup {FileInstances}
  /\ model = file
  /\ loaded = file
  /\ cleanUpModelDone = FALSE
  /\ doWriteModel = FALSE
  /\ varCounter = 1
  /\ response = NoResponse
  /\ pc = "setupModel"
  /\ build \in Builds
  /\ boots = 1
  /\ lateDecl = 0
  /\ declared = {}
  /\ preSweep = <<>>
  /\ swept = <<>>
  /\ prevLoaded = <<>>
  /\ prevDeclared = {}
  /\ prevSwept = <<>>
  /\ openWin = {}
  /\ unreconciled = {}
  /\ EvtIdle
  /\ getValueRowNr = UINT8_MAX
  /\ saveRequests = 0
  /\ lastTick = NoTick
SpecSave == SaveInit /\ [][BootNext]_vars

\* Boots in which a declaration window is opened by preDetails, so that a
\* save request finds variables with a negative order
SweepNext ==
  \/ BootNext
  \/ \E key \in Keys(model) : PreDetails(key)
SpecSweep == SaveInit /\ [][SweepNext]_vars

\* One boot: setup, the startup sweep and the declaration windows of
\* preDetails, late declarations and postDetails
DetailsNext ==
  \/ SetupModel
  \/ SetupSystem
  \/ Loop20ms
  \/ \E key \in Keys(model) : PreDetails(key)
  \/ \E key \in unreconciled, rowNr \in Rows : PostDetails(key, rowNr)
  \/ \E d \in LateDecls : LateDeclare(d)

SpecDetails == LifeInit /\ [][DetailsNext]_vars

\* A snapshot with variables no module declares next to each other: old1 (with
\* a child) and old2 before name, gone and gone2 before safeMode
FileAdjacent ==
  << SnapVar("m", "System", "module", FALSE, JNull,
       << SnapVar("System", "old1", "text", FALSE, JInt(7),
            << SnapVar("old1", "older", "text", FALSE, JInt(8), <<>>) >>),
          SnapVar("System", "old2", "text", FALSE, JInt(6), <<>>),
          SnapVar("System", "name", "text", FALSE, JArr(<<JInt(1), JInt(2)>>), <<>>),
          SnapVar("System", "gone", "number", FALSE, JArr(<<JInt(3)>>), <<>>),
          SnapVar("System", "gone2", "checkbox", FALSE, JArr(<<JNull>>), <<>>),
          SnapVar("System", "safeMode", "checkbox", FALSE,
                  JArr(<<JNull, JBool(TRUE)>>), <<>>) >>) >>
\* One boot that finds a snapshot in which removals follow each other
IterInit ==
  /\ file \in {FileRows, FileAdjacent}
  /\ model = file
  /\ loaded = file
  /\ cleanUpModelDone = FALSE
  /\ doWriteModel = FALSE
  /\ varCounter = 1
  /\ response = NoResponse
  /\ pc = "setupModel"
  /\ build \in Builds
  /\ boots = 1
  /\ lateDecl = 0
  /\ declared = {}
  /\ preSweep = <<>>
  /\ swept = <<>>
  /\ prevLoaded = <<>>
  /\ prevDeclared = {}
  /\ prevSwept = <<>>
  /\ openWin = {}
  /\ unreconciled = {}
  /\ EvtIdle
  /\ getValueRowNr = UINT8_MAX
  /\ saveRequests = 0
  /\ lastTick = NoTick
SpecIter == IterInit /\ [][DetailsNext]_vars

\* ------------------------------------------------------------ event dispatch
\* a vector of a module
Vec(elems) == [vec |-> TRUE, elems |-> elems]
\* A table with two columns: tbl (read-only, handler fun) with c1 (dash,
\* handler 1, bound to the vector at 1) and c2 (read-only, no handler, a
\* number bound by p2)
Table(fun, type1, p2) ==
  << [SnapVar("m", "tbl", "table", TRUE, JNull,
        << [SnapVar("tbl", "c1", type1, FALSE, JArr(<<JInt(5), JInt(300)>>), <<>>)
              EXCEPT !.p = JInt(1), !.fun = JInt(1), !.dash = JBool(TRUE),
                     !.o = JInt(2)],
           [SnapVar("tbl", "c2", "number", TRUE, JArr(<<JInt(7), JNull>>), <<>>)
              EXCEPT !.p = p2, !.o = JInt(3)] >>)
        EXCEPT !.fun = fun, !.o = JInt(1)] >>
Filled == << Vec(<<11, 12, 13>>), Vec(<<21, 22, 23>>) >>
OneRow == << Vec(<<11>>), Vec(<<>>) >>
Empty == << Vec(<<>>), Vec(<<>>) >>
\* The tables and storage the dispatcher is checked on: the types of c1, the
\* bindings of c2, the handler indexes of tbl, the lengths of the vectors and
\* an unbound c2 with a handler
EvtConfigs ==
  {[model |-> Table(JInt(0), type1, JInt(2)), native |-> Filled] :
      type1 \in {"range", "number", "checkbox", "button"}}
  \cup {[model |-> Table(JInt(0), "range", p2), native |-> Filled] :
      p2 \in {JNull, JInt(0)}}
  \cup {[model |-> Table(fun, "range", JInt(2)), native |-> Filled] :
      fun \in {JNull, JInt(7)}}
  \cup {[model |-> Table(JInt(0), "range", JInt(2)), native |-> nat] :
      nat \in {OneRow, Empty}}
  \cup {[model |-> [Table(JInt(0), "range", p2) EXCEPT ![1].n[2].fun = JInt(1)],
          native |-> Filled] :
      p2 \in {JNull, JInt(0)}}

\* a single value of a module
Single(x) == [vec |-> FALSE, elems |-> <<x>>]
\* a variable with one value, a handler and a pointer to a single value
ScalarVar(type, value) ==
  << [SnapVar("m", "s1", type, FALSE, value, <<>>)
        EXCEPT !.p = JInt(1), !.fun = JInt(1), !.o = JInt(1)] >>
\* The variables with one value the dispatcher is checked on: the types with
\* integer storage, values the storage can and cannot hold, and a text
ScalarConfigs ==
  {[model |-> ScalarVar(c[1], c[2]), native |-> <<Single(9)>>] :
      c \in { <<"range", JInt(5)>>, <<"pin", JInt(300)>>, <<"select", JNull>>,
              <<"number", JInt(300)>>, <<"checkbox", JBool(TRUE)>> }}
  \cup {[model |-> ScalarVar(type, JStr(7)), native |-> <<Single(9)>>] :
      type \in {"text", "fileEdit"}}

EvtInit ==
  /\ \E c \in EvtConfigs \cup ScalarConfigs :
       model = c.model /\ native = c.native
  /\ file = <<>>
  /\ loaded = <<>>
  /\ cleanUpModelDone = TRUE
  /\ doWriteModel = FALSE
  /\ varCounter = 4
  /\ response = NoResponse
  /\ pc = "loop"
  /\ build = [psram |-> FALSE, devmode |-> FALSE]
  /\ boots = 1
  /\ lateDecl = 0
  /\ declared = {}
  /\ preSweep = <<>>
  /\ swept = <<>>
  /\ prevLoaded = <<>>
  /\ prevDeclared = {}
  /\ prevSwept = <<>>
  /\ openWin = {}
  /\ unreconciled = {}
  /\ changedVarsQueue = <<>>
  /\ nEvents = 0
  /\ lastCall = NoCall
  /\ evlog = <<>>
  /\ query = NoQuery
  /\ getValueRowNr = UINT8_MAX
  /\ saveRequests = 0
  /\ lastTick = NoTick

\* a caller of Variable::triggerEvent(eventType, rowNr, init) on the variable key
TriggerEvent(key, eventType, rowNr, init) ==
  /\ pc = "loop"
  /\ nEvents < MaxEvents
  /\ \E outcome \in Reinterpreted :
     LET var == findVar(model, key[1], key[2])
         st == [queue |-> changedVarsQueue, native |-> native,
                resp |-> response, doWrite |-> doWriteModel, log |-> <<>>,
                result |-> FALSE, outcome |-> outcome,
                requests |-> saveRequests]
         done == triggerEvent(var, eventType, rowNr, init, st)
     IN /\ ~IsNullVar(var)
        /\ changedVarsQueue' = done.queue
        /\ native' = done.native
        /\ response' = done.resp
        /\ doWriteModel' = done.doWrite
        /\ saveRequests' = done.requests
        /\ evlog' = done.log
        /\ lastCall' = [key |-> key, eventType |-> eventType, rowNr |-> rowNr,
                        init |-> init, result |-> done.result,
                        queue |-> changedVarsQueue, native |-> native,
                        response |-> response]
  /\ nEvents' = nEvents + 1
  /\ UNCHANGED <<model, file, cleanUpModelDone, varCounter, pc, build, boots,
                 lateDecl, loaded, declared, preSweep, swept, prevLoaded,
                 prevDeclared, prevSwept, openWin, unreconciled>>
  /\ UNCHANGED <<queryVars, lastTick>>

\* Events: calls of triggerEvent on the variables of a table
EvtNext ==
  \E key \in Keys(model), eventType \in EventTypes, rowNr \in Rows,
     init \in BOOLEAN :
    /\ init => eventType = "onChange"
    /\ TriggerEvent(key, eventType, rowNr, init)

SpecEvt == EvtInit /\ [][EvtNext]_vars

\* Row operations on a table: onChange for a row or for no row, and the
\* declaration windows of preDetails and postDetails
RowsNext ==
  \/ \E key \in Keys(model), rowNr \in Rows :
       TriggerEvent(key, "onChange", rowNr, FALSE)
  \/ \E key \in Keys(model) : PreDetails(key)
  \/ \E key \in unreconciled, rowNr \in Rows : PostDetails(key, rowNr)

SpecRows == EvtInit /\ [][RowsNext]_vars

\* ------------------------------------------------------------- row deletion
\* A table whose two columns have n rows, each bound to a vector with the
\* same n values
LockstepTable(n) ==
  << [SnapVar("m", "tbl", "table", FALSE, JNull,
        << [SnapVar("tbl", "c1", "range", FALSE,
                    JArr(SubSeq(<<JInt(5), JInt(6), JInt(7)>>, 1, n)), <<>>)
              EXCEPT !.p = JInt(1), !.o = JInt(2)],
           [SnapVar("tbl", "c2", "number", FALSE,
                    JArr(SubSeq(<<JInt(300), JInt(7), JInt(8)>>, 1, n)), <<>>)
              EXCEPT !.p = JInt(2), !.o = JInt(3)] >>)
        EXCEPT !.fun = JInt(1), !.o = JInt(1)] >>
LockstepNative(n) ==
  << Vec(SubSeq(<<5, 6, 7>>, 1, n)), Vec(SubSeq(<<300, 7, 8>>, 1, n)) >>
\* A table with a column c1 bound to a vector, a child s with one value bound
\* to a single value, and a column q with one pointer per row, each to a
\* single value
ShapeTable ==
  << [SnapVar("m", "tbl", "table", FALSE, JNull,
        << [SnapVar("tbl", "c1", "range", FALSE, JArr(<<JInt(5), JInt(6)>>), <<>>)
              EXCEPT !.p = JInt(1), !.o = JInt(2)],
           [SnapVar("tbl", "s", "range", FALSE, JInt(9), <<>>)
              EXCEPT !.p = JInt(2), !.o = JInt(3)],
           [SnapVar("tbl", "q", "range", FALSE, JArr(<<JInt(1), JInt(2)>>), <<>>)
              EXCEPT !.p = JArr(<<JInt(3), JInt(4)>>), !.o = JInt(4)] >>)
        EXCEPT !.fun = JInt(1), !.o = JInt(1)] >>
ShapeNative == << Vec(<<5, 6>>), Single(9), Single(1), Single(2) >>
DeleteConfigs ==
  {[model |-> LockstepTable(n), native |-> LockstepNative(n)] : n \in {2, 3}}
  \cup {[model |-> ShapeTable, native |-> ShapeNative]}

DeleteInit ==
  /\ \E c \in DeleteConfigs : model = c.model /\ native = c.native
  /\ file = <<>>
  /\ loaded = <<>>
  /\ cleanUpModelDone = TRUE
  /\ doWriteModel = FALSE
  /\ varCounter = 5
  /\ response = NoResponse
  /\ pc = "loop"
  /\ build = [psram |-> FALSE, devmode |-> FALSE]
  /\ boots = 1
  /\ lateDecl = 0
  /\ declared = {}
  /\ preSweep = <<>>
  /\ swept = <<>>
  /\ prevLoaded = <<>>
  /\ prevDeclared = {}
  /\ prevSwept = <<>>
  /\ openWin = {}
  /\ unreconciled = {}
  /\ changedVarsQueue = <<>>
  /\ nEvents = 0
  /\ lastCall = NoCall
  /\ evlog = <<>>
  /\ query = NoQuery
  /\ getValueRowNr = UINT8_MAX
  /\ saveRequests = 0
  /\ lastTick = NoTick

\* ------------------------------------------------------------ save requests
\* The tree after setup, before the first tick: the declared variables have a
\* negative order, saveModel has the first handler of varEvents and uptime,
\* which is read-only and has a value, the second; old is in no declaration
RequestTree ==
  << [SnapVar("m", "Model", "module", FALSE, JNull,
        << [SnapVar("Model", "saveModel", "button", FALSE, JNull, <<>>)
              EXCEPT !.fun = JInt(0), !.o = JInt(-1)] >>)
        EXCEPT !.o = JInt(-ModelOrder)],
     [SnapVar("m", "System", "module", FALSE, JNull,
        << [SnapVar("System", "name", "text", FALSE, JInt(5), <<>>)
              EXCEPT !.o = JInt(-2)],
           [SnapVar("System", "uptime", "text", TRUE, JInt(3), <<>>)
              EXCEPT !.fun = JInt(1), !.o = JInt(-3)],
           SnapVar("System", "old", "text", FALSE, JInt(7), <<>>) >>)
        EXCEPT !.o = JInt(-SystemOrder)] >>
RequestInit ==
  /\ model = RequestTree
  /\ file \in {NoFile, FileObsolete}
  /\ loaded = file
  /\ cleanUpModelDone = FALSE
  /\ doWriteModel = FALSE
  /\ varCounter = 4
  /\ response = NoResponse
  /\ pc = "loop"
  /\ build = [psram |-> FALSE, devmode |-> FALSE]
  /\ boots = 1
  /\ lateDecl = 0
  /\ declared = {}
  /\ preSweep = <<>>
  /\ swept = <<>>
  /\ prevLoaded = <<>>
  /\ prevDeclared = {}
  /\ prevSwept = <<>>
  /\ openWin = {}
  /\ unreconciled = {}
  /\ native = <<>>
  /\ changedVarsQueue = <<>>
  /\ nEvents = 0
  /\ lastCall = NoCall
  /\ evlog = <<>>
  /\ query = NoQuery
  /\ getValueRowNr = UINT8_MAX
  /\ saveRequests = 0
  /\ lastTick = NoTick
\* One boot after setup: the ticks of loop20ms, the saveModel handler called
\* for onChange, and triggerEvent on any variable for any event
RequestNext ==
  \/ Loop20ms
  \/ SaveModelOnChange
  \/ \E key \in Keys(model), eventType \in EventTypes :
       TriggerEvent(key, eventType, UINT8_MAX, FALSE)
\* what loop20ms does to its two flags
Loop20msFlags == pc = "loop" /\ cleanUpModelDone' = TRUE /\ doWriteModel' = FALSE
\* loop20ms is called again and again by the main loop: a tick that has a
\* flag to change is not put off forever
SpecRequest ==
  /\ RequestInit
  /\ [][RequestNext]_vars
  /\ WF_<<cleanUpModelDone, doWriteModel>>(Loop20msFlags)

\* ------------------------------------------------------------ tree queries
\* A tree in which B.x is there twice: below B, and after B below A
TreeTwice ==
  << SnapVar("m", "A", "module", FALSE, JNull,
       << SnapVar("A", "B", "table", FALSE, JNull,
            << SnapVar("B", "x", "number", FALSE, JInt(1), <<>>),
               SnapVar("B", "y", "number", FALSE, JInt(3), <<>>) >>),
          SnapVar("B", "x", "number", FALSE, JInt(2), <<>>),
          SnapVar("A", "C", "text", FALSE, JInt(4), <<>>) >>),
     SnapVar("m", "D", "module", FALSE, JNull, <<>>) >>
\* A table with rows of its own and columns with rows: c1 with a column g1
\* below it, c2 with one value and a column g2 below it, c3 with one row and
\* c4 with no row
TreeRows ==
  << SnapVar("m", "T", "table", FALSE, JArr(<<JInt(9), JInt(8)>>),
       << SnapVar("T", "c1", "number", FALSE, JArr(<<JInt(1), JInt(2), JInt(3)>>),
            << SnapVar("c1", "g1", "number", FALSE,
                       JArr(<<JInt(4), JInt(5)>>), <<>>) >>),
          SnapVar("T", "c2", "number", FALSE, JInt(7),
            << SnapVar("c2", "g2", "number", FALSE,
                       JArr(<<JInt(6), JInt(7)>>), <<>>) >>),
          SnapVar("T", "c3", "number", FALSE, JArr(<<JInt(1)>>), <<>>),
          SnapVar("T", "c4", "number", FALSE, JArr(<<>>), <<>>) >>) >>
\* A table whose first child has one value and whose second and third
\* children are columns of two rows
TreeScalarFirst ==
  << SnapVar("m", "U", "table", FALSE, JNull,
       << SnapVar("U", "s", "number", FALSE, JInt(5), <<>>),
          SnapVar("U", "d1", "number", FALSE, JArr(<<JInt(1), JInt(2)>>), <<>>),
          SnapVar("U", "d2", "number", FALSE, JArr(<<JInt(3), JInt(4)>>), <<>>) >>) >>
QueryTrees == {FileObsolete, FileInstances, TreeTwice, TreeRows, TreeScalarFirst}

TreeInit ==
  /\ model \in QueryTrees
  /\ file = <<>>
  /\ loaded = <<>>
  /\ cleanUpModelDone = TRUE
  /\ doWriteModel = FALSE
  /\ varCounter = 1
  /\ response = NoResponse
  /\ pc = "loop"
  /\ build = [psram |-> FALSE, devmode |-> FALSE]
  /\ boots = 1
  /\ lateDecl = 0
  /\ declared = {}
  /\ preSweep = <<>>
  /\ swept = <<>>
  /\ prevLoaded = <<>>
  /\ prevDeclared = {}
  /\ prevSwept = <<>>
  /\ openWin = {}
  /\ unreconciled = {}
  /\ EvtIdle
  /\ getValueRowNr \in Rows
  /\ saveRequests = 0
  /\ lastTick = NoTick

\* The array a call with the parent scope works on: parent["n"], or the model
\* when there is no parent (scope <<>>)
ScopeOf(root, scope) ==
  IF scope = <<>> THEN root ELSE findVar(root, scope[1], scope[2]).n
\* the names a caller may ask for: those of the tree and one that is not there
Pids(root) == {var.pid : var \in VarSet(root)} \cup {"none"}
Ids(root) == {var.id : var \in VarSet(root)} \cup {"none"}

\* a caller of SysModModel::findVar(pid, id, parent)
FindVar(pid, id, scope) ==
  /\ pc = "loop"
  /\ query = NoQuery
  /\ query' = [NoQuery EXCEPT !.op = "findVar", !.pid = pid, !.id = id,
                              !.scope = scope,
                              !.found = findVar(ScopeOf(model, scope), pid, id)]
  /\ UNCHANGED <<lifeVars, evtVars, getValueRowNr, saveVars>>

\* The visitors: one that never stops the walk (as the one of loop1s) and
\* those that stop it at one variable
Visitors(root) == {{}} \cup {{key} : key \in Keys(root)}

\* a caller of SysModModel::walkThroughModel(fun, parent)
WalkThroughModel(stopAt, scope) ==
  /\ pc = "loop"
  /\ query = NoQuery
  /\ LET walk == walkThroughModel(ScopeOf(model, scope), stopAt, <<>>)
     IN query' = [NoQuery EXCEPT !.op = "walkThroughModel", !.scope = scope,
                                 !.stopAt = stopAt,
                                 !.visited = walk.visited,
                                 !.result = walk.result]
  /\ UNCHANGED <<lifeVars, evtVars, getValueRowNr, saveVars>>

\* a caller of Variable::removeValuesForRow(rowNr) on the variable key
RemoveValuesForRow(key, rowNr) ==
  /\ pc = "loop"
  /\ query.op \in {"", "removeValuesForRow"}
  /\ LET var == findVar(model, key[1], key[2])
     IN /\ ~IsNullVar(var)
        /\ model' = ReplaceVar(model, key[1], key[2],
                               removeValuesForRow(var, rowNr))
  /\ query' = [NoQuery EXCEPT !.op = "removeValuesForRow", !.scope = key,
                              !.rowNr = rowNr]
  /\ UNCHANGED <<file, cleanUpModelDone, doWriteModel, varCounter, response,
                 pc, build, boots, lateDecl, loaded, declared, preSweep, swept,
                 prevLoaded, prevDeclared, prevSwept, openWin, unreconciled>>
  /\ UNCHANGED <<evtVars, getValueRowNr, saveVars>>

\* a caller of Variable::rows(fun) on the variable key
VisitRows(key) ==
  /\ pc = "loop"
  /\ query = NoQuery
  /\ LET var == findVar(model, key[1], key[2])
     IN /\ ~IsNullVar(var)
        /\ query' = [NoQuery EXCEPT !.op = "rows", !.scope = key,
                                    !.calls = rows(var)]
  /\ UNCHANGED <<lifeVars, evtVars, getValueRowNr, saveVars>>

\* a caller of Variable::getValue(rowNr) on the variable key
GetValue(key, rowNr) ==
  /\ pc = "loop"
  /\ query = NoQuery
  /\ LET var == findVar(model, key[1], key[2])
     IN /\ ~IsNullVar(var)
        /\ query' = [NoQuery EXCEPT !.op = "getValue", !.scope = key,
                                    !.rowNr = rowNr,
                                    !.value = getValue(var, rowNr, getValueRowNr)]
  /\ UNCHANGED <<lifeVars, evtVars, getValueRowNr, saveVars>>

\* The options structures looked up in: options without a group and in a
\* group; a group in a group, a group with two pairs and a pair whose value is
\* one option; no option at all; one option that is not in an array
OptionsFlat ==
  OptionArray(<< Option("a"),
                 Group(<< Pair("G", OptionArray(<< Option("b"), Option("c") >>)) >>),
                 Option("d") >>)
OptionsNested ==
  OptionArray(<< Group(<< Pair("G", OptionArray(
                             << Group(<< Pair("H", OptionArray(<< Option("x") >>)) >>),
                                Option("y") >>)),
                          Pair("K", Option("z")) >>),
                 Option("w") >>)
OptionsSets ==
  {OptionsFlat, OptionsNested, OptionArray(<<>>), Option("o")}

\* a caller of Variable::findOptionsTextRec(options, &startValue, value,
\* &groupName, &optionName) with startValue 0 and no texts, as
\* findOptionsText calls it
FindOptionsTextRec(options, value) ==
  /\ pc = "loop"
  /\ query = NoQuery
  /\ LET done == findOptionsTextRec(options, NoOption, value, NoText)
     IN query' = [NoQuery EXCEPT !.op = "findOptionsTextRec",
                                 !.options = options,
                                 !.optionValue = value,
                                 !.result = done.found,
                                 !.groupName = done.groupName,
                                 !.optionName = done.optionName]
  /\ UNCHANGED <<lifeVars, evtVars, getValueRowNr, saveVars>>

TreeNext ==
  \/ \E key \in Keys(model), rowNr \in Rows : RemoveValuesForRow(key, rowNr)
  \/ \E key \in Keys(model) : VisitRows(key)
  \/ \E key \in Keys(model), rowNr \in Rows : GetValue(key, rowNr)
  \/ \E options \in OptionsSets, value \in 0..MaxValue :
       FindOptionsTextRec(options, value)
  \/ \E pid \in Pids(model), id \in Ids(model),
        scope \in Keys(model) \cup {<<>>} : FindVar(pid, id, scope)
  \/ \E stopAt \in Visitors(model), scope \in Keys(model) \cup {<<>>} :
       WalkThroughModel(stopAt, scope)

SpecTree == TreeInit /\ [][TreeNext]_vars

\* The deletion of a row: onDelete for the row on a variable, and
\* removeValuesForRow for the row on a variable
DeleteNext ==
  \/ \E key \in Keys(model), rowNr \in Rows :
       TriggerEvent(key, "onDelete", rowNr, FALSE)
  \/ \E key \in Keys(model), rowNr \in Rows : RemoveValuesForRow(key, rowNr)

SpecDelete == DeleteInit /\ [][DeleteNext]_vars

\* ------------------------------------------------------------------ claims
VarOf(root, key) == findVar(root, key[1], key[2])
\* the snapshot loop20ms writes of the tree root
SnapshotOf(root) == writeJsonDocToFile(cleanUpModel(root, FALSE, TRUE), Exclusions)

\* C1: a variable declared by the setup of two consecutive boots is, after
\* the second boot's startup sweep with showObsolete off, in the tree with an
\* order >= 0; a variable declared only by the first boot's setup is not in
\* the tree.
C1_Obsolescence ==
  (boots >= 2 /\ cleanUpModelDone /\ ~showObsoleteOf(preSweep)) =>
    \A key \in prevDeclared :
      IF key \in declared
      THEN key \in Keys(swept) /\ Order(VarOf(swept, key)) >= 0
           /\ ~IsNull(VarOf(swept, key).o)
      ELSE key \notin Keys(swept)
\* the second boot has swept, with a variable of each kind, and the one
\* declared only by the first boot was in the snapshot the second boot read
C1_Witness ==
  /\ boots >= 2 /\ cleanUpModelDone /\ ~showObsoleteOf(preSweep)
  /\ \E a \in prevDeclared \cap declared : a \in Keys(loaded)
  /\ \E b \in prevDeclared \ declared : b \in Keys(loaded) /\ b \in Keys(preSweep)

\* C2: when a boot declares exactly the variables the boot before declared,
\* and it read the snapshot of the tree as the boot before left it after its
\* startup sweep (or the same snapshot as the boot before), its startup sweep
\* leaves the same tree as the startup sweep of the boot before.
C2_Idempotent ==
  (/\ boots >= 2 /\ cleanUpModelDone
   /\ declared = prevDeclared
   /\ (loaded = SnapshotOf(prevSwept) \/ loaded = prevLoaded)) =>
    swept = prevSwept
\* the second boot read the snapshot of the first boot's swept tree, in which
\* a read-only variable had a value and an obsolete variable was shown
C2_Witness ==
  /\ boots >= 2 /\ cleanUpModelDone
  /\ declared = prevDeclared
  /\ loaded = SnapshotOf(prevSwept)
  /\ loaded # prevLoaded
  /\ \E var \in VarSet(swept) : readOnly(var) /\ ~IsNull(var.value)
  /\ \E var \in VarSet(swept) : IsNull(var.o)

\* the keys of the variables of kids with an order < 0 below ancestors that
\* all have an order < 0
RECURSIVE NegativeChain(_)
NegativeChain(kids) ==
  IF kids = <<>> THEN {}
  ELSE (IF ~IsNull(kids[1].o) /\ Order(kids[1]) < 0
        THEN {Key(kids[1])} \cup NegativeChain(kids[1].n) ELSE {})
       \cup NegativeChain(Tail(kids))

\* C3 as stated: the startup sweep removes every variable whose order is < 0
\* or absent and keeps every variable whose order is >= 0; with showObsolete
\* set it removes nothing.
C3_Original ==
  cleanUpModelDone =>
    IF showObsoleteOf(preSweep) THEN Keys(swept) = Keys(preSweep)
    ELSE \A var \in VarSet(preSweep) :
           /\ (IsNull(var.o) \/ Order(var) < 0) => Key(var) \notin Keys(swept)
           /\ (~IsNull(var.o) /\ Order(var) >= 0) => Key(var) \in Keys(swept)
\* C3 amended: the startup sweep (the oPos branch) removes every variable, at
\* any depth, whose order field is absent or whose order is >= 0, and keeps
\* every variable whose order is < 0 below kept ancestors, making its order
\* positive; with showObsolete set it removes no variable.
C3_StartupSweep ==
  cleanUpModelDone =>
    IF showObsoleteOf(preSweep) THEN Keys(swept) = Keys(preSweep)
    ELSE /\ Keys(swept) = NegativeChain(preSweep)
         /\ \A var \in VarSet(preSweep) :
              (IsNull(var.o) \/ Order(var) >= 0) => Key(var) \notin Keys(swept)
         /\ \A var \in VarSet(swept) :
              /\ Order(var) > 0
              /\ \E old \in VarSet(preSweep) :
                   Key(old) = Key(var) /\ Order(old) = -Order(var)
\* a sweep that removed a variable without order below a kept module and
\* kept a declared one
C3_Witness ==
  /\ cleanUpModelDone /\ ~showObsoleteOf(preSweep)
  /\ \E var \in VarSet(preSweep) :
       IsNull(var.o) /\ var.pid # "m" /\ Key(var) \notin Keys(swept)
  /\ \E var \in VarSet(preSweep) : Order(var) < 0 /\ Key(var) \in Keys(swept)

\* C4 as stated: after the startup sweep, whenever every preDetails has been
\* followed by a postDetails on the same variable (whatever the row, whatever
\* the variable's order), no variable has an order < 0.
C4_Original ==
  (cleanUpModelDone /\ openWin = {}) =>
    \A var \in VarSet(model) : Order(var) >= 0
\* C4 amended: after the startup sweep, whenever every preDetails has been
\* followed by a postDetails(r) with r # UINT8_MAX made while the variable's
\* own order was >= 0, no variable has an order < 0.
C4_OrderSign ==
  (cleanUpModelDone /\ unreconciled = {}) =>
    \A var \in VarSet(model) : Order(var) >= 0
\* after the sweep, a postDetails with a row has closed a window in which it
\* dealt with a row-valued child
C4_Witness ==
  /\ cleanUpModelDone /\ unreconciled = {}
  /\ ~IsNull(response.detailsRowNr)
  /\ \E var \in VarSet(model) :
       /\ Key(var) = response.detailsVar
       /\ \E k \in DOMAIN var.n : IsArr(var.n[k].value) /\ Order(var.n[k]) > 0

\* C5: a preDetails call leaves every child of the variable with an order
\* < 0, of the same magnitude as before, and leaves a child that was already
\* negative as it was.
C5_PreDetailsPending ==
  [][\A key \in Keys(model) :
       PreDetails(key) =>
         LET before == VarOf(model, key).n
             after == VarOf(model', key).n
         IN /\ Len(after) = Len(before)
            /\ \A k \in DOMAIN before :
                 /\ Order(after[k]) < 0
                 /\ Abs(Order(after[k])) = Abs(Order(before[k]))
                 /\ Order(before[k]) < 0 => after[k] = before[k]]_vars

\* ------------------------------------------------- claims on triggerEvent
\* a triggerEvent call has been made; lastCall and evlog describe it
Called == nEvents > 0
CallVar == VarOf(model, lastCall.key)
\* the positions of a step in the log of the last call
StepAt(step) == {i \in DOMAIN evlog : evlog[i].step = step}
\* the handlers called for the event itself (not for the nested onSetValue)
HandlerAt ==
  {i \in StepAt("handler") : evlog[i].eventType = lastCall.eventType}
\* the handler index of var is absent or past the end of the handler table
NoHandler(var) == IsNull(var.fun) \/ AsInt(var.fun) >= Len(varEvents)
\* var is bound to one vector for all its rows, by a type triggerEvent knows
RowArrayBound(var) ==
  /\ IsArr(var.value)
  /\ ~IsNull(var.p) /\ ~IsArr(var.p) /\ AsInt(var.p) # 0
  /\ NativeType(var.type) \in IntegerTypes
\* new is old with the slot r erased
ErasedFrom(old, new, r) ==
  /\ Len(new) = Len(old) - 1
  /\ \A i \in 0..(Len(old) - 1) :
       /\ i < r => new[i + 1] = old[i + 1]
       /\ i > r => new[i] = old[i + 1]

\* C6: within one triggerEvent call the steps come in a fixed order. For
\* onChange the enqueue comes first, then the write to the bound storage, then
\* the handler, which sees the storage as the call leaves it. For onDelete the
\* handler comes before every erase and sees the storage as the call found it.
\* No other event type writes a value to the storage, and only onChange and
\* onDelete change the storage at all.
C6_StepOrder ==
  Called =>
    /\ lastCall.eventType = "onChange" =>
         /\ \A i \in StepAt("enqueue") : i = 1
         /\ \A j \in StepAt("write") : \A h \in HandlerAt : j < h
         /\ \A h \in HandlerAt : evlog[h].native = native
    /\ lastCall.eventType = "onDelete" =>
         /\ \A h \in HandlerAt : \A e \in StepAt("erase") : h < e
         /\ \A h \in HandlerAt : evlog[h].native = lastCall.native
    /\ lastCall.eventType # "onChange" =>
         /\ StepAt("write") = {}
         /\ lastCall.eventType # "onDelete" => native = lastCall.native
\* an onChange call that enqueued, wrote a new value and called the handler
C6_Witness ==
  /\ Called
  /\ lastCall.eventType = "onChange"
  /\ [i \in DOMAIN evlog |-> evlog[i].step] = <<"enqueue", "write", "handler">>
  /\ native # lastCall.native

\* C7 as stated: an onChange call with init = false on any variable appends
\* the variable to the queue once; every other call leaves the queue as it is.
C7_Original ==
  Called =>
    changedVarsQueue =
      IF lastCall.eventType = "onChange" /\ ~lastCall.init
      THEN Append(lastCall.queue, lastCall.key)
      ELSE lastCall.queue
\* C7: an onChange call with init = false on a variable that has the dash
\* field appends the variable to the queue once; a call on a variable without
\* dash, with init = true or of another event type leaves the queue as it is.
C7_Enqueue ==
  Called =>
    changedVarsQueue =
      IF lastCall.eventType = "onChange" /\ ~lastCall.init
         /\ ~IsNull(CallVar.dash)
      THEN Append(lastCall.queue, lastCall.key)
      ELSE lastCall.queue
\* an onChange call with init = false on a variable with dash
C7_Witness ==
  /\ Called
  /\ lastCall.eventType = "onChange" /\ ~lastCall.init
  /\ ~IsNull(CallVar.dash)
  /\ changedVarsQueue = <<lastCall.key>>

\* C8: when the handler index of the variable is absent or past the end of
\* the handler table no handler is called and the result is false, and the
\* rest of the event is done: onAdd and onDelete stage the rowNr, onDelete
\* erases the row from the vectors of the children, and onUI on a read-only
\* variable triggers onSetValue.
C8_NoHandler ==
  Called /\ NoHandler(CallVar) =>
    /\ StepAt("handler") = {}
    /\ ~lastCall.result
    /\ lastCall.eventType = "onAdd" =>
         response.onAddRowNr = JInt(lastCall.rowNr)
    /\ lastCall.eventType = "onDelete" =>
         /\ response.onDeleteRowNr = JInt(lastCall.rowNr)
         /\ \A k \in DOMAIN CallVar.n :
              LET childVar == CallVar.n[k]
                  pointer == AsInt(childVar.p)
              IN RowArrayBound(childVar)
                 /\ lastCall.rowNr < Len(lastCall.native[pointer].elems)
                 => ErasedFrom(lastCall.native[pointer].elems,
                               native[pointer].elems, lastCall.rowNr)
    /\ lastCall.eventType = "onUI" /\ readOnly(CallVar) =>
         StepAt("nested") # {}
\* an onDelete call on a table with a handler index past the end of the
\* table, which erased a row
C8_Witness ==
  /\ Called
  /\ ~IsNull(CallVar.fun) /\ AsInt(CallVar.fun) >= Len(varEvents)
  /\ lastCall.eventType = "onDelete"
  /\ StepAt("erase") # {}
  /\ response.onDeleteRowNr = JInt(lastCall.rowNr)

BoundWithSlot(childVar, r) ==
  /\ ~IsNull(childVar.p) /\ ~IsArr(childVar.p) /\ AsInt(childVar.p) # 0
  /\ r < Len(lastCall.native[AsInt(childVar.p)].elems)
\* C10 as stated: onDelete for row r on a table erases slot r from the vector
\* of every child that has a bound pointer and a vector longer than r, and
\* stages onDelete.rowNr = r.
C10_Original ==
  Called /\ lastCall.eventType = "onDelete" /\ CallVar.n # <<>> =>
    /\ \A k \in DOMAIN CallVar.n :
         BoundWithSlot(CallVar.n[k], lastCall.rowNr) =>
           ErasedFrom(lastCall.native[AsInt(CallVar.n[k].p)].elems,
                      native[AsInt(CallVar.n[k].p)].elems, lastCall.rowNr)
    /\ response.onDeleteRowNr = JInt(lastCall.rowNr)
\* C10: onDelete for row r on a table erases slot r from the vector of every
\* child that has a bound pointer, a type triggerEvent knows and a vector
\* longer than r: the vector is one shorter, the slots before r are as before
\* and every slot after r has moved down by one. The vector of a child of
\* another type is left as it is. onDelete.rowNr = r is staged.
C10_DeleteCascade ==
  Called /\ lastCall.eventType = "onDelete" /\ CallVar.n # <<>> =>
    /\ \A k \in DOMAIN CallVar.n :
         BoundWithSlot(CallVar.n[k], lastCall.rowNr) =>
           IF NativeType(CallVar.n[k].type) # ""
           THEN ErasedFrom(lastCall.native[AsInt(CallVar.n[k].p)].elems,
                           native[AsInt(CallVar.n[k].p)].elems, lastCall.rowNr)
           ELSE native[AsInt(CallVar.n[k].p)] =
                  lastCall.native[AsInt(CallVar.n[k].p)]
    /\ response.onDeleteRowNr = JInt(lastCall.rowNr)
\* onDelete for row 1 on a table with two columns of three rows: both are
\* left with two rows, the former row 2 at index 1
C10_Witness ==
  /\ Called
  /\ lastCall.eventType = "onDelete" /\ lastCall.rowNr = 1
  /\ lastCall.native = Filled
  /\ native[1].elems = <<11, 13>>
  /\ native[2].elems = <<21, 23>>
  /\ response.onDeleteRowNr = JInt(1)

\* the handler calls of the last triggerEvent call, in order: event type, row
HandlerCalls ==
  LET RECURSIVE Calls(_)
      Calls(i) ==
        IF i > Len(evlog) THEN <<>>
        ELSE (IF evlog[i].step = "handler"
              THEN << <<evlog[i].eventType, evlog[i].rowNr>> >> ELSE <<>>)
             \o Calls(i + 1)
  IN Calls(1)
\* C11: triggerEvent(onUI, row) on a variable with a handler calls the handler
\* twice when the variable is read-only, with onUI and then with onSetValue
\* and the same row, and once, with onUI, when it is not read-only; then no
\* onSetValue is triggered.
C11_ReadOnlyRecompute ==
  Called /\ lastCall.eventType = "onUI" /\ ~NoHandler(CallVar) =>
    IF readOnly(CallVar)
    THEN HandlerCalls = << <<"onUI", lastCall.rowNr>>,
                           <<"onSetValue", lastCall.rowNr>> >>
    ELSE HandlerCalls = << <<"onUI", lastCall.rowNr>> >>
         /\ StepAt("nested") = {}
\* onUI for row 1 on the read-only table with a handler
C11_Witness ==
  /\ Called
  /\ lastCall.eventType = "onUI" /\ lastCall.rowNr = 1
  /\ readOnly(CallVar) /\ ~NoHandler(CallVar)
  /\ HandlerCalls = << <<"onUI", 1>>, <<"onSetValue", 1>> >>

\* no read-only variable and no child of a variable instances has a value
NoTransientValue(root) ==
  \A var \in VarSet(root) :
    /\ readOnly(var) => IsNull(var.value)
    /\ var.id = "instances" => \A k \in DOMAIN var.n : IsNull(var.n[k].value)
\* C12: when loop20ms serves a save request, the tree it leaves and the
\* snapshot it writes have no value for a read-only variable, at any depth,
\* and no value for a child of the instances table.
C12_NoReadOnlyValue ==
  [][doWriteModel /\ ~doWriteModel' /\ pc' = "loop" =>
       /\ NoTransientValue(cleanUpModel(model, FALSE, TRUE))
       /\ NoTransientValue(model')
       /\ NoTransientValue(file')]_vars
\* a snapshot was written of a tree in which a read-only variable and a child
\* of instances had values after the startup sweep; both are in the snapshot
\* without a value
C12_Witness ==
  /\ pc = "loop" /\ cleanUpModelDone /\ ~doWriteModel
  /\ file # loaded
  /\ boots = 1
  /\ ~IsNull(VarOf(swept, <<"System", "psram">>).value)
  /\ ~IsNull(VarOf(swept, <<"instances", "insName">>).value)
  /\ ~IsNull(VarOf(swept, <<"Instances", "count">>).value)
  /\ ~IsNullVar(VarOf(file, <<"System", "psram">>))
  /\ ~IsNullVar(VarOf(file, <<"instances", "insName">>))
  /\ VarOf(file, <<"Instances", "count">>).value = JInt(1)
  /\ NoTransientValue(file)
  /\ NoTransientValue(model)

\* snap is tree without the fields fun, dash, o, p and oldValue: the same
\* variables in the same shape with the same id, type and value
RECURSIVE SnapshotMatches(_, _)
SnapshotMatches(tree, snap) ==
  /\ Len(snap) = Len(tree)
  /\ \A k \in DOMAIN tree :
       /\ IsNull(snap[k].fun) /\ IsNull(snap[k].dash) /\ IsNull(snap[k].o)
       /\ IsNull(snap[k].p) /\ IsNull(snap[k].oldValue)
       /\ snap[k].id = tree[k].id
       /\ snap[k].pid = tree[k].pid
       /\ snap[k].type = tree[k].type
       /\ snap[k].ro = tree[k].ro
       /\ snap[k].value = tree[k].value
       /\ SnapshotMatches(tree[k].n, snap[k].n)
\* C13: the snapshot loop20ms writes is the tree it leaves without the fields
\* fun, dash, o, p and oldValue: no variable of the snapshot, at any depth,
\* has one of these fields, and every variable of the tree is in the snapshot
\* at its place with its id, type and value.
C13_Exclusions ==
  [][doWriteModel /\ ~doWriteModel' /\ pc' = "loop" =>
       SnapshotMatches(model', file')]_vars
\* a snapshot was written of a tree in which count has a value and all five
\* fields; in the snapshot it has the value and none of the fields
C13_Witness ==
  /\ pc = "loop" /\ cleanUpModelDone /\ ~doWriteModel
  /\ boots = 1 /\ file # loaded
  /\ LET var == VarOf(model, <<"Instances", "count">>)
         snap == VarOf(file, <<"Instances", "count">>)
     IN /\ ~IsNullVar(var) /\ ~IsNullVar(snap)
        /\ ~IsNull(var.fun) /\ ~IsNull(var.dash) /\ ~IsNull(var.o)
        /\ ~IsNull(var.p) /\ ~IsNull(var.oldValue)
        /\ IsNull(snap.fun) /\ IsNull(snap.dash) /\ IsNull(snap.o)
        /\ IsNull(snap.p) /\ IsNull(snap.oldValue)
        /\ snap.value = JInt(1) /\ var.value = JInt(1)
        /\ snap.type = "number"

\* the value of var is an array with no element other than null
AllNullArray(var) ==
  IsArr(var.value) /\ \A k \in DOMAIN var.value.a : IsNull(var.value.a[k])
\* C14: after postDetails(r), with r a row, on a variable with an order >= 0,
\* none of its children has an array value with null elements only: a pending
\* column whose rows have all been nulled is removed.
C14_NullRowCollapse ==
  [][\A key \in Keys(model) : \A rowNr \in 0..MaxRow :
       PostDetails(key, rowNr) /\ Order(VarOf(model, key)) >= 0 =>
         \A k \in DOMAIN VarOf(model', key).n :
           ~AllNullArray(VarOf(model', key).n[k])]_vars
\* the column safeMode was declared and survived the startup sweep, and
\* postDetails removed it after its last row was nulled
C14_Witness ==
  /\ pc = "loop" /\ cleanUpModelDone
  /\ <<"System", "safeMode">> \in declared
  /\ IsArr(VarOf(swept, <<"System", "safeMode">>).value)
  /\ ~AllNullArray(VarOf(swept, <<"System", "safeMode">>))
  /\ IsNullVar(VarOf(model, <<"System", "safeMode">>))
  /\ response.detailsVar = <<"m", "System">>
  /\ response.detailsRowNr # JNull
  /\ unreconciled = {}

\* the types triggerEvent has a binding for
RecognizedTypes ==
  {"select", "range", "pin", "number", "checkbox", "text", "fileEdit", "coord3D"}
\* the last step was the triggerEvent call described by lastCall'
CallStep == nEvents' = nEvents + 1
\* C15: triggerEvent(onChange) on a variable whose pointer is zero or absent,
\* or whose type is not one triggerEvent has a binding for, writes nothing to
\* the storage and leaves the tree as it is, and calls the handler when the
\* variable has one in the handler table.
C15_SoftBindingFailure ==
  [][LET var == VarOf(model, lastCall'.key)
     IN (/\ CallStep
         /\ lastCall'.eventType = "onChange"
         /\ \/ PointerOf(var, lastCall'.rowNr) = 0
            \/ var.type \notin RecognizedTypes) =>
          /\ native' = native
          /\ model' = model
          /\ \A i \in DOMAIN evlog' : evlog'[i].step # "write"
          /\ ~NoHandler(var) =>
               \E i \in DOMAIN evlog' :
                 /\ evlog'[i].step = "handler"
                 /\ evlog'[i].eventType = "onChange"
                 /\ evlog'[i].rowNr = lastCall'.rowNr]_vars
\* onChange on a variable of a type without binding, with a pointer and a
\* handler: the handler was called and the storage is as before
C15_Witness ==
  /\ Called
  /\ lastCall.eventType = "onChange" /\ lastCall.rowNr = 0
  /\ CallVar.type \notin RecognizedTypes
  /\ PointerOf(CallVar, 0) # 0
  /\ ~NoHandler(CallVar)
  /\ HandlerCalls = << <<"onChange", 0>> >>
  /\ native = lastCall.native

\* var has one value and is bound to a single value of a module
ScalarBound(var) ==
  /\ ~IsArr(var.value)
  /\ ~IsNull(var.p) /\ ~IsArr(var.p) /\ AsInt(var.p) # 0
\* the storage var is bound to holds x, and held x when the handler was called
BoundHolds(var, x) ==
  /\ native[AsInt(var.p)].elems = <<x>>
  /\ \A h \in HandlerAt : evlog[h].native[AsInt(var.p)].elems = <<x>>
C17_MissingRowContext ==
  [][/\ LET var == VarOf(model, lastCall'.key)
        IN (/\ CallStep
            /\ lastCall'.eventType = "onChange"
            /\ lastCall'.rowNr = UINT8_MAX
            /\ IsArr(var.value)
            /\ ~IsNull(var.p) /\ ~IsArr(var.p) /\ AsInt(var.p) # 0) =>
             native' = native
     /\ \A key \in Keys(model) :
          PostDetails(key, UINT8_MAX) =>
            \A k \in DOMAIN VarOf(model, key).n :
              IsArr(VarOf(model, key).n[k].value) =>
                \E j \in DOMAIN VarOf(model', key).n :
                  VarOf(model', key).n[j] = VarOf(model, key).n[k]]_vars
\* onChange without a row was called on the bound column c1 and left the
\* vectors of three rows as they were, and after preDetails and postDetails
\* without a row on the table, c1 is still pending with its two rows
C17_Witness ==
  /\ Called
  /\ lastCall.eventType = "onChange" /\ lastCall.rowNr = UINT8_MAX
  /\ lastCall.key = <<"tbl", "c1">>
  /\ RowArrayBound(CallVar)
  /\ lastCall.native = Filled /\ native = Filled
  /\ response.detailsVar = <<"m", "tbl">>
  /\ response.detailsRowNr = JNull
  /\ Order(CallVar) < 0
  /\ CallVar.value = JArr(<<JInt(5), JInt(300)>>)

\* the positions, in depth-first pre-order, of the variables pid.id of root
MatchesAt(root, pid, id) ==
  {i \in DOMAIN AllVars(root) :
     AllVars(root)[i].pid = pid /\ AllVars(root)[i].id = id}
\* C18: findVar(pid, id, scope) returns the first variable, in depth-first
\* pre-order over the variables below the scope (all variables without a
\* scope), whose pid and id are the ones asked for, and a null variable when
\* and only when there is none; the tree is left as it is.
C18_FindVar ==
  [][query' # query /\ query'.op = "findVar" =>
       LET root == ScopeOf(model, query'.scope)
           at == MatchesAt(root, query'.pid, query'.id)
       IN /\ model' = model
          /\ at = {} => IsNullVar(query'.found)
          /\ at # {} =>
               /\ ~IsNullVar(query'.found)
               /\ \E i \in at :
                    /\ \A j \in at : i <= j
                    /\ query'.found = AllVars(root)[i]]_vars
\* B.x was asked for below A, where it is there twice: the one below B, which
\* comes first depth first, was returned
C18_Witness ==
  /\ query.op = "findVar"
  /\ query.pid = "B" /\ query.id = "x" /\ query.scope = <<"m", "A">>
  /\ model = TreeTwice
  /\ query.found.value = JInt(1)

\* C19: walkThroughModel calls the visitor on the variables in depth-first
\* pre-order. When a call returns true no further variable is visited and the
\* walk returns true; when none does every variable of the scope is visited
\* once and the walk returns false.
C19_Walk ==
  [][query' # query /\ query'.op = "walkThroughModel" =>
       LET all == AllVars(ScopeOf(model, query'.scope))
           stops == {i \in DOMAIN all : Key(all[i]) \in query'.stopAt}
       IN /\ model' = model
          /\ stops = {} => query'.visited = all /\ ~query'.result
          /\ stops # {} =>
               /\ query'.result
               /\ \E i \in stops :
                    /\ \A j \in stops : i <= j
                    /\ query'.visited = SubSeq(all, 1, i)]_vars
\* a walk over the whole tree was stopped at B.y, which is below B below A:
\* A, B, B.x and B.y were visited, and the variables after B were not
C19_Witness ==
  /\ query.op = "walkThroughModel"
  /\ model = TreeTwice
  /\ query.scope = <<>> /\ query.stopAt = {<<"B", "y">>}
  /\ query.result
  /\ [i \in DOMAIN query.visited |-> query.visited[i].id] = <<"A", "B", "x", "y">>

\* a variable without the variables below it
Shallow(var) == [var EXCEPT !.n = <<>>]
\* new is old without the element r when old has one, old otherwise
RowRemoved(old, new, r) ==
  IF r < Len(old) THEN ErasedFrom(old, new, r) ELSE new = old
\* the keys of the variables below var with an array value
RECURSIVE ArraysBelow(_)
ArraysBelow(var) ==
  UNION {(IF IsArr(var.n[k].value) THEN {Key(var.n[k])} ELSE {})
           \cup ArraysBelow(var.n[k]) : k \in DOMAIN var.n}
\* the keys of the variables below var with an array value that are reached
\* from var through variables with an array value only
RECURSIVE ArrayChain(_)
ArrayChain(var) ==
  UNION {IF IsArr(var.n[k].value)
         THEN {Key(var.n[k])} \cup ArrayChain(var.n[k]) ELSE {} :
         k \in DOMAIN var.n}
\* the last step was removeValuesForRow, and it removed the row of the
\* variables with a key in rowOf and changed nothing else
RowRemovedOf(rowOf, old, new, r) ==
  /\ Len(AllVars(new)) = Len(AllVars(old))
  /\ \A i \in DOMAIN AllVars(old) :
       LET before == Shallow(AllVars(old)[i])
           after == Shallow(AllVars(new)[i])
       IN /\ [after EXCEPT !.value = JNull] = [before EXCEPT !.value = JNull]
          /\ IF Key(before) \in rowOf
             THEN IsArr(after.value)
                  /\ RowRemoved(before.value.a, after.value.a, r)
             ELSE after.value = before.value
\* C20 as stated: removeValuesForRow(r) removes the row r from the array of
\* the variable it is called on and of every variable below it with an array
\* value, and leaves everything else as it is.
C20_Original ==
  [][query' # query /\ query'.op = "removeValuesForRow" =>
       LET var == VarOf(model, query'.scope)
       IN RowRemovedOf((IF IsArr(var.value) THEN {Key(var)} ELSE {})
                         \cup ArraysBelow(var),
                       model, model', query'.rowNr)]_vars
\* C20: removeValuesForRow(r) removes the row r from the array of every child
\* with an array value of the variable it is called on and, through such
\* children only, of the array-valued variables below them: each array longer
\* than r is one shorter with the later rows moved down. The variable itself,
\* the variables below a child without an array value, the arrays with no
\* row r and all other variables are left as they are.
C20_RemoveValuesForRow ==
  [][query' # query /\ query'.op = "removeValuesForRow" =>
       RowRemovedOf(ArrayChain(VarOf(model, query'.scope)),
                    model, model', query'.rowNr)]_vars
\* removeValuesForRow(1) was called on the table T of TreeRows
C20_Witness ==
  /\ query.op = "removeValuesForRow"
  /\ query.scope = <<"m", "T">> /\ query.rowNr = 1
  /\ VarOf(model, <<"m", "T">>).value = JArr(<<JInt(9), JInt(8)>>)
  /\ VarOf(model, <<"T", "c1">>).value = JArr(<<JInt(1), JInt(3)>>)
  /\ VarOf(model, <<"c1", "g1">>).value = JArr(<<JInt(4)>>)
  /\ VarOf(model, <<"c2", "g2">>).value = JArr(<<JInt(6), JInt(7)>>)
  /\ VarOf(model, <<"T", "c3">>).value = JArr(<<JInt(1)>>)

\* the number of rows of the first child of var: the length of its array, 0
\* when it has no array or var has no child
FirstChildRows(var) ==
  IF var.n # <<>> /\ IsArr(var.n[1].value) THEN Len(var.n[1].value.a) ELSE 0
\* C21: rows(fun) on a variable calls fun once for each row of the value array
\* of its first child, with the variable itself and the rows 0, 1, ..., n-1
\* in this order, and leaves the tree as it is.
C21_Rows ==
  [][query' # query /\ query'.op = "rows" =>
       LET var == VarOf(model, query'.scope)
           n == FirstChildRows(var)
       IN /\ Len(query'.calls) = n
          /\ \A i \in 1..n :
               query'.calls[i].rowNr = i - 1 /\ query'.calls[i].var = var
          /\ model' = model]_vars
\* rows was called on the table T, whose first child has three rows and which
\* has two rows of its own: three calls, with the rows 0, 1 and 2
C21_Witness ==
  /\ query.op = "rows" /\ query.scope = <<"m", "T">>
  /\ model = TreeRows
  /\ [i \in DOMAIN query.calls |-> query.calls[i].rowNr] = <<0, 1, 2>>
  /\ \A i \in DOMAIN query.calls : Key(query.calls[i].var) = <<"m", "T">>

\* C22: getValue(r) on a variable with one value returns this value whatever
\* r is. On a variable with an array value the row is r, or getValueRowNr when
\* r is UINT8_MAX; the element of this row is returned when there is one, and
\* else (no row, or a row past the end) element 0, or null when the array is
\* empty. The tree is left as it is.
C22_GetValue ==
  [][query' # query /\ query'.op = "getValue" =>
       LET var == VarOf(model, query'.scope)
           r == query'.rowNr
           row == IF r # UINT8_MAX THEN r ELSE getValueRowNr
       IN /\ model' = model
          /\ ~IsArr(var.value) => query'.value = var.value
          /\ IsArr(var.value) =>
               IF row # UINT8_MAX /\ row < Len(var.value.a)
               THEN query'.value = var.value.a[row + 1]
               ELSE IF Len(var.value.a) > 0
               THEN query'.value = var.value.a[1]
               ELSE query'.value = JNull]_vars
\* getValue without a row on the column c1 = [1, 2, 3] while getValueRowNr is
\* 1: the value of row 1 was returned
C22_Witness ==
  /\ query.op = "getValue" /\ query.scope = <<"T", "c1">>
  /\ query.rowNr = UINT8_MAX /\ getValueRowNr = 1
  /\ model = TreeRows
  /\ query.value = JInt(2)

\* the individual options of an options structure in depth-first order, each
\* with the name of the outermost group it is in (no text when in no group)
RECURSIVE LeafOptions(_, _)
LeafOptions(options, outer) ==
  IF options.k = "option" THEN << [text |-> options.text, group |-> outer] >>
  ELSE LET RECURSIVE Of(_)
           Of(i) ==
             IF i > Len(options.items) THEN <<>>
             ELSE LeafOptions([options.items[i] EXCEPT !.key = ""],
                              IF outer = NoText THEN options.items[i].key
                              ELSE outer)
                  \o Of(i + 1)
       IN Of(1)
\* C23: with the individual options numbered 0, 1, 2, ... in depth-first
\* order, findOptionsTextRec(options, 0, v) returns true exactly when v is
\* less than their number; the option name is then the text of option v and
\* the group name the name of the outermost group it is in, no text when it is
\* in no group. When it returns false there is no group and no option name.
C23_FindOptionsText ==
  [][query' # query /\ query'.op = "findOptionsTextRec" =>
       LET leaves == LeafOptions(query'.options, NoText)
           v == query'.optionValue
       IN /\ query'.result <=> v < Len(leaves)
          /\ query'.result =>
               /\ query'.optionName = leaves[v + 1].text
               /\ query'.groupName = leaves[v + 1].group
          /\ ~query'.result =>
               query'.optionName = NoText /\ query'.groupName = NoText]_vars
\* option 0 of the nested options, x, is in the group H in the group G: it was
\* found with the group name G
C23_Witness ==
  /\ query.op = "findOptionsTextRec"
  /\ query.options = OptionsNested /\ query.optionValue = 0
  /\ query.result
  /\ query.optionName = "x" /\ query.groupName = "G"
\* value 4 was looked up in the flat options, which has the options 0 to 3
C23_WitnessNotFound ==
  /\ query.op = "findOptionsTextRec"
  /\ query.options = OptionsFlat /\ query.optionValue = 4
  /\ ~query.result

\* the children of var with the key of childVar
ChildrenLike(var, childVar) ==
  {var.n[j] : j \in {i \in DOMAIN var.n : Key(var.n[i]) = Key(childVar)}}
\* a is the array old with the element r null and every other element of old
\* as it was
RowNulled(old, a, r) ==
  /\ Len(a) = Max(Len(old), r + 1)
  /\ IsNull(a[r + 1])
  /\ \A i \in DOMAIN old : i # r + 1 => a[i] = old[i]
  /\ \A i \in DOMAIN a : i > Len(old) => IsNull(a[i])
\* C24: postDetails(r), with r a row, on a variable with an order >= 0 deals
\* with each child that has an array value. A pending child (order < 0) has
\* its element r set to null, its order made positive and its other elements
\* left as they were; it is removed when all its elements are null then. A
\* child that is not pending has no element changed; it is removed when all
\* its elements are null already.
C24_PendingRowNulled ==
  [][\A key \in Keys(model) : \A rowNr \in 0..MaxRow :
       PostDetails(key, rowNr) /\ Order(VarOf(model, key)) >= 0 =>
         \A k \in DOMAIN VarOf(model, key).n :
           LET childVar == VarOf(model, key).n[k]
               after == ChildrenLike(VarOf(model', key), childVar)
               nulled == SetElem(childVar.value.a, rowNr, JNull)
           IN IsArr(childVar.value) =>
                IF Order(childVar) < 0
                THEN /\ \A a \in after :
                          /\ IsArr(a.value)
                          /\ RowNulled(childVar.value.a, a.value.a, rowNr)
                          /\ Order(a) = -Order(childVar)
                          /\ [a EXCEPT !.value = JNull, !.o = JNull] =
                               [childVar EXCEPT !.value = JNull, !.o = JNull]
                     /\ after = {} <=> \A i \in DOMAIN nulled : IsNull(nulled[i])
                ELSE /\ after \subseteq {childVar}
                     /\ after = {} <=> AllNullArray(childVar)]_vars
\* after the startup sweep left name = [1, 2] and safeMode = [null, true],
\* safeMode was declared again and postDetails(0) on System nulled row 0 of
\* the pending name and left the confirmed safeMode as it was
C24_Witness ==
  /\ pc = "loop" /\ cleanUpModelDone
  /\ VarOf(swept, <<"System", "name">>).value = JArr(<<JInt(1), JInt(2)>>)
  /\ VarOf(swept, <<"System", "safeMode">>).value = JArr(<<JNull, JBool(TRUE)>>)
  /\ lateDecl = 1
  /\ response.detailsVar = <<"m", "System">>
  /\ response.detailsRowNr = JInt(0)
  /\ unreconciled = {}
  /\ VarOf(model, <<"System", "name">>).value = JArr(<<JNull, JInt(2)>>)
  /\ Order(VarOf(model, <<"System", "name">>)) > 0
  /\ VarOf(model, <<"System", "safeMode">>).value = JArr(<<JNull, JBool(TRUE)>>)
  /\ Order(VarOf(model, <<"System", "safeMode">>)) > 0

\* C25: in a boot the startup sweep runs once, in the first loop20ms tick, and
\* before any snapshot is written. A tick with cleanUpModelDone not set sweeps
\* the tree with cleanUpModel() and sets it; a tick with cleanUpModelDone set
\* does not sweep again; a snapshot written by a tick is one of the tree after
\* the startup sweep, also in the tick that runs the sweep; and no snapshot is
\* written in a boot while cleanUpModelDone is not set.
C25_SweepOnceFirst ==
  /\ [](~cleanUpModelDone => file = loaded /\ swept = <<>>)
  /\ [][Loop20ms =>
          /\ cleanUpModelDone'
          /\ ~cleanUpModelDone =>
               /\ preSweep' = model
               /\ swept' = cleanUpModel(model, TRUE, FALSE)
               /\ model' = IF doWriteModel THEN cleanUpModel(swept', FALSE, TRUE)
                           ELSE swept'
          /\ cleanUpModelDone =>
               /\ swept' = swept /\ preSweep' = preSweep
               /\ model' = IF doWriteModel THEN cleanUpModel(model, FALSE, TRUE)
                           ELSE model
          /\ doWriteModel => file' = writeJsonDocToFile(model', Exclusions)
          /\ ~doWriteModel => file' = file]_vars
\* the first boot has written a snapshot of the tree its startup sweep left:
\* the variable gone, which the sweep removed, was in the snapshot the boot
\* read and is not in the one it wrote
C25_Witness ==
  /\ boots = 1 /\ pc = "loop" /\ cleanUpModelDone
  /\ file # loaded
  /\ <<"System", "gone">> \in Keys(loaded)
  /\ <<"System", "gone">> \in Keys(preSweep)
  /\ <<"System", "gone">> \notin Keys(swept)
  /\ <<"System", "gone">> \notin Keys(file)
  /\ file = writeJsonDocToFile(cleanUpModel(swept, FALSE, TRUE), Exclusions)

\* C26: a triggerEvent(onUI) call ends after at most one triggerEvent call
\* made by triggerEvent itself, which is for onSetValue (a nesting depth of at
\* most 2), and neither of the two appends to the queue of changed variables
\* or changes the bound storage.
C26_NestedDispatch ==
  Called /\ lastCall.eventType = "onUI" =>
    /\ Cardinality(StepAt("nested")) <= 1
    /\ \A i \in StepAt("nested") : evlog[i].eventType = "onSetValue"
    /\ \A i \in StepAt("handler") :
         evlog[i].eventType =
           (IF \E j \in StepAt("nested") : j < i THEN "onSetValue" ELSE "onUI")
    /\ \A i \in DOMAIN evlog :
         /\ evlog[i].step \in {"handler", "nested"}
         /\ evlog[i].native = lastCall.native
    /\ changedVarsQueue = lastCall.queue
    /\ native = lastCall.native
\* onUI for row 1 on the read-only column c2, which is bound to the vector at
\* 2 and has two rows: onSetValue was triggered and the vectors are as before
C26_Witness ==
  /\ Called
  /\ lastCall.eventType = "onUI" /\ lastCall.rowNr = 1
  /\ lastCall.key = <<"tbl", "c2">>
  /\ readOnly(CallVar) /\ RowArrayBound(CallVar)
  /\ Cardinality(StepAt("nested")) = 1
  /\ native = Filled /\ changedVarsQueue = <<>>

\* after is before with nothing changed but values, and a changed value is
\* one of a read-only variable or of a child of instances, which is now null
RECURSIVE OnlyTransientStripped(_, _, _)
OnlyTransientStripped(before, after, parentId) ==
  /\ Len(after) = Len(before)
  /\ \A k \in DOMAIN before :
       /\ [after[k] EXCEPT !.value = JNull, !.n = <<>>] =
            [before[k] EXCEPT !.value = JNull, !.n = <<>>]
       /\ after[k].value # before[k].value =>
            /\ readOnly(before[k]) \/ parentId = "instances"
            /\ IsNull(after[k].value)
       /\ OnlyTransientStripped(before[k].n, after[k].n, before[k].id)
Lockstep(var, nat, n) ==
  /\ var.n # <<>>
  /\ \A k \in DOMAIN var.n :
       /\ RowArrayBound(var.n[k])
       /\ IsVector(nat, AsInt(var.n[k].p))
       /\ Len(var.n[k].value.a) = n
       /\ Len(nat[AsInt(var.n[k].p)].elems) = n
       /\ \A i \in 1..n :
            nat[AsInt(var.n[k].p)].elems[i] = AsInt(var.n[k].value.a[i])
       /\ \A j \in DOMAIN var.n : j # k => var.n[j].p # var.n[k].p
RowArrayShaped(var) == IsArr(var.value) /\ ~IsArr(var.p)
\* C29: the erase cascade of onDelete takes the pointer of a child for a
\* pointer to a vector only when the binding of the child is row-array-shaped.
\* For a child with one value or with an array of pointers, one per row, no
\* storage is taken for a vector and the storage it is bound to is left as it
\* is.
C29_ShapeRespected ==
  Called /\ lastCall.eventType = "onDelete" =>
    /\ StepAt("reinterpret") = {}
    /\ \A k \in DOMAIN CallVar.n :
         LET childVar == CallVar.n[k]
             pointer == PointerOf(childVar, lastCall.rowNr)
         IN ~RowArrayShaped(childVar) /\ pointer \in DOMAIN native =>
              native[pointer] = lastCall.native[pointer]
\* onDelete for row 0 on the table with the three binding shapes: the single
\* values behind s and behind row 0 of q were taken for vectors
C29_Reinterpreted ==
  /\ Called
  /\ lastCall.eventType = "onDelete" /\ lastCall.rowNr = 0
  /\ lastCall.native = ShapeNative
  /\ Cardinality(StepAt("reinterpret")) = 2
  /\ native[2].elems = <<>>

\* the startup sweep of a list when every variable of the list is looked at
\* once: a variable without order or with an order >= 0 is left out (kept as
\* it is with showObsolete), every other one has its order made positive, and
\* the same holds for the variables below a variable
RECURSIVE EachOnceSweep(_, _)
EachOnceSweep(list, showObsolete) ==
  IF list = <<>> THEN <<>>
  ELSE LET var == list[1]
           isObsolete == IsNull(var.o) \/ Order(var) >= 0
           kept == [var EXCEPT
                      !.o = IF isObsolete THEN @ ELSE JInt(-Order(var)),
                      !.n = EachOnceSweep(@, showObsolete)]
       IN (IF isObsolete /\ ~showObsolete THEN <<>> ELSE <<kept>>)
          \o EachOnceSweep(Tail(list), showObsolete)
\* postDetails on a list of children when every child is looked at once
RECURSIVE EachOnceDetails(_, _)
EachOnceDetails(kids, rowNr) ==
  IF kids = <<>> THEN <<>>
  ELSE (IF postDetailsChild(kids[1], rowNr).remove THEN <<>>
        ELSE <<postDetailsChild(kids[1], rowNr).var>>)
       \o EachOnceDetails(Tail(kids), rowNr)
IsTable(var) == \E k \in DOMAIN var.n : IsArr(var.n[k].value)
\* the row count of a table: the length of the value array of the first child
\* that has an array value
RowCount(var) ==
  LET k == CHOOSE i \in DOMAIN var.n :
             /\ IsArr(var.n[i].value)
             /\ \A j \in 1..(i - 1) : ~IsArr(var.n[j].value)
  IN Len(var.n[k].value.a)
\* C31 as stated: rows(fun) on a table calls fun as many times as the table
\* has rows, also when the first child of the table has one value and a later
\* child is the first column with an array.
C31_Original ==
  [][query' # query /\ query'.op = "rows" /\ IsTable(VarOf(model, query'.scope)) =>
       Len(query'.calls) = RowCount(VarOf(model, query'.scope))]_vars
\* C31: rows(fun) on a table calls fun as many times as the table has rows
\* when the first child of the table has an array value, with the rows 0, 1,
\* ... in this order; when the first child has one value, fun is not called
\* at all, whatever the number of rows of the later columns.
C31_RowsOfTable ==
  [][query' # query /\ query'.op = "rows" /\ IsTable(VarOf(model, query'.scope)) =>
       LET var == VarOf(model, query'.scope)
       IN /\ IsArr(var.n[1].value) =>
               /\ Len(query'.calls) = RowCount(var)
               /\ \A i \in DOMAIN query'.calls : query'.calls[i].rowNr = i - 1
          /\ ~IsArr(var.n[1].value) => query'.calls = <<>>]_vars
\* rows was called on the table U, whose first child s has one value and
\* whose first column d1 has rows: no call
C31_Witness ==
  /\ query.op = "rows" /\ query.scope = <<"m", "U">>
  /\ IsTable(VarOf(model, <<"m", "U">>))
  /\ ~IsArr(VarOf(model, <<"m", "U">>).n[1].value)
  /\ RowCount(VarOf(model, <<"m", "U">>)) > 0
  /\ query.calls = <<>>

\* C32: postDetails on a variable with an order >= 0 removes every child that
\* has one value (no array) and is pending (order < 0), and leaves every child
\* that has one value and an order >= 0 where and as it was. postDetails on a
\* variable that is pending itself (order < 0) leaves the tree as it is and
\* only puts the variable in details.var of the response.
C32_ScalarPending ==
  [][\A key \in Keys(model) : \A rowNr \in Rows :
       PostDetails(key, rowNr) =>
         LET var == VarOf(model, key)
         IN IF Order(var) >= 0
            THEN \A k \in DOMAIN var.n :
                   ~IsArr(var.n[k].value) =>
                     ChildrenLike(VarOf(model', key), var.n[k])
                       = IF Order(var.n[k]) < 0 THEN {} ELSE {var.n[k]}
            ELSE /\ model' = model
                 /\ response' = [response EXCEPT !.detailsVar = key]]_vars
\* without a snapshot every child of System has one value; after the startup
\* sweep and preDetails on System, safeMode was declared again and postDetails
\* removed name and uptime, which were pending, and kept safeMode as it was
C32_Witness ==
  /\ pc = "loop" /\ cleanUpModelDone
  /\ loaded = <<>>
  /\ lateDecl = 1
  /\ response.detailsVar = <<"m", "System">>
  /\ unreconciled = {}
  /\ Order(VarOf(model, <<"m", "System">>)) > 0
  /\ {"name", "uptime", "safeMode"}
       \subseteq {VarOf(swept, <<"m", "System">>).n[k].id :
                    k \in DOMAIN VarOf(swept, <<"m", "System">>).n}
  /\ \A k \in DOMAIN VarOf(swept, <<"m", "System">>).n :
       ~IsArr(VarOf(swept, <<"m", "System">>).n[k].value)
  /\ Len(VarOf(model, <<"m", "System">>).n) = 1
  /\ VarOf(model, <<"m", "System">>).n[1].id = "safeMode"
  /\ VarOf(model, <<"m", "System">>).n[1].value
       = VarOf(swept, <<"System", "safeMode">>).value
  /\ Order(VarOf(model, <<"m", "System">>).n[1]) > 0
\* postDetails was called on System before the startup sweep, while System
\* and its children were pending: the children are all there and pending
C32_WitnessPendingParent ==
  /\ pc = "loop" /\ ~cleanUpModelDone
  /\ response.detailsVar = <<"m", "System">>
  /\ response.detailsRowNr = JNull
  /\ openWin = {}
  /\ <<"m", "System">> \in unreconciled
  /\ Order(VarOf(model, <<"m", "System">>)) < 0
  /\ {<<"System", id>> : id \in {"name", "uptime", "safeMode"}}
       \subseteq Keys(model)
  /\ \A k \in DOMAIN VarOf(model, <<"m", "System">>).n :
       /\ ~IsArr(VarOf(model, <<"m", "System">>).n[k].value)
       /\ Order(VarOf(model, <<"m", "System">>).n[k]) < 0

C33_WitnessNoRequest ==
  /\ pc = "loop" /\ cleanUpModelDone /\ ~doWriteModel
  /\ lastTick = [requests |-> 0, writes |-> 0]
  /\ file = loaded
  /\ nEvents = 1 /\ lastCall.eventType = "onChange"
  /\ lastCall.key = <<"System", "uptime">>
  /\ VarOf(model, <<"System", "uptime">>).value = JInt(3)

============================================================================
